---- MODULE Spec2Model ----
(***************************************************************************)
(* Content analyzer: main.analyze_content (src/main.py) and                *)
(* streamlit_app.analyze_content / calculate_reading_ease                  *)
(* (src/streamlit_app.py) as one state machine.  A call is a sequence of   *)
(* steps in source order; the locals of the running call are the state.    *)
(*                                                                         *)
(* TEXT.  A Python string is a sequence of items [s |-> token, n |-> k]:   *)
(* a token is either one maximal run of word characters (\w+) or one       *)
(* non-word character; n > 1 stands for the word s written n times with    *)
(* single spaces in between ("lorem lorem lorem").  Two word items are     *)
(* never adjacent.  In the texts used no pattern and no keyword occurs     *)
(* with its first or last word inside a longer word, so a literal pattern  *)
(* occurs in a text exactly where its tokens occur as whole tokens.        *)
(*                                                                         *)
(* NUMBERS.  main.py computes with floats whose values are multiples of    *)
(* 0.5; its scores are kept here in TENTHS of a point (25 points = 250).   *)
(* streamlit_app.py scores are integers and are kept in points.  Densities *)
(* are compared as exact fractions (100*k against threshold*word_count).   *)
(***************************************************************************)
EXTENDS Integers, Sequences, FiniteSets, TLC

(* ------------------------------ text ---------------------------------- *)

T(s) == [s |-> s, n |-> 1]
R(s, k) == [s |-> s, n |-> k]

\* the non-word characters that occur in the texts
Punct == {" ", "\n", ".", "!", "?", ":", "-", "#", "[", "]"}
Whitespace == {" ", "\n"}
IsWord(s) == s \notin Punct

\* str.lower() on one token
Lower(s) ==
  CASE s = "Buy" -> "buy"
    [] s = "Author" -> "author"
    [] s = "Air" -> "air"
    [] s = "Fryer" -> "fryer"
    [] s = "AI" -> "ai"
    [] s = "Oven" -> "oven"
    [] OTHER -> s

\* str.lower() on a text
LowerText(c) == [i \in DOMAIN c |-> [c[i] EXCEPT !.s = Lower(@)]]

RECURSIVE SumRange(_, _, _)
\* f[lo] + ... + f[hi]
SumRange(f, lo, hi) ==
  IF lo > hi THEN 0
  ELSE IF lo = hi THEN f[lo]
  ELSE LET mid == (lo + hi) \div 2
       IN SumRange(f, lo, mid) + SumRange(f, mid + 1, hi)

\* sum of f over the items 1..k of a text
SumN(f, k) == SumRange(f, 1, k)

\* len(re.findall(r'\b\w+\b', text))
WordCount(c) ==
  SumN([i \in DOMAIN c |-> IF IsWord(c[i].s) THEN c[i].n ELSE 0], Len(c))

\* len(text)
CharLen(c) ==
  SumN([i \in DOMAIN c |-> c[i].n * Len(c[i].s) + (c[i].n - 1)], Len(c))

\* the word s written k times, single spaces in between, as plain tokens
Expand(s, k) == [j \in 1..(2 * k - 1) |-> IF j % 2 = 1 THEN s ELSE " "]

Tokens(pat) == {pat[i] : i \in DOMAIN pat}

\* A run of a word that no token of the pattern equals holds no match of a
\* pattern that has a word token, and no match spans it: one copy stands for
\* the run.  Any other run is written out.
Collapsible(pat, it) ==
  /\ it.n > 1
  /\ it.s \notin Tokens(pat)
  /\ \E t \in Tokens(pat) : IsWord(t)

RECURSIVE ViewRange(_, _, _, _)
\* the plain token sequence of the items lo..hi of text c, as pat sees it
ViewRange(c, pat, lo, hi) ==
  IF lo > hi THEN <<>>
  ELSE IF lo = hi
  THEN IF c[lo].n = 1 \/ Collapsible(pat, c[lo]) THEN <<c[lo].s>>
       ELSE Expand(c[lo].s, c[lo].n)
  ELSE LET mid == (lo + hi) \div 2
       IN ViewRange(c, pat, lo, mid) \o ViewRange(c, pat, mid + 1, hi)

\* the plain token sequence of the items 1..k of text c, as pattern pat sees it
View(c, pat, k) == ViewRange(c, pat, 1, k)

\* the text written out token by token; a literal pattern made of a string
Plain(c) == View(c, <<>>, Len(c))

\* \b at the gap before position i of v (i in 1..Len(v)+1)
Boundary(v, i) ==
  LET before == i > 1 /\ IsWord(v[i - 1])
      after == i <= Len(v) /\ IsWord(v[i])
  IN before # after

\* the literal pat matches v at position i (wb: the pattern is wrapped in \b)
MatchAt(v, pat, i, wb) ==
  /\ i + Len(pat) - 1 <= Len(v)
  /\ \A j \in 1..Len(pat) : v[i + j - 1] = pat[j]
  /\ wb => Boundary(v, i) /\ Boundary(v, i + Len(pat))

\* the positions of v at which the non-empty literal pat matches
MatchPositions(v, pat, wb) ==
  {i \in 1..(Len(v) - Len(pat) + 1) : MatchAt(v, pat, i, wb)}

RECURSIVE CountFrom(_, _, _)
\* re.findall scans from the left and resumes behind each match: the matches
\* among the positions ms, w tokens wide each, found from position i on
CountFrom(ms, w, i) ==
  LET rest == {m \in ms : m >= i}
  IN IF rest = {} THEN 0
     ELSE LET m == CHOOSE x \in rest : \A y \in rest : x <= y
          IN 1 + CountFrom(ms, w, m + w)

\* len(re.findall(...)) of a non-empty literal in the plain tokens v
CountIn(v, pat, wb) == CountFrom(MatchPositions(v, pat, wb), Len(pat), 1)

\* the number of gaps of text c at which \b holds: two per word
BoundaryCount(c) == 2 * WordCount(c)

\* len(re.findall(re.escape(pat), text)); an empty pattern matches at every
\* position of the text, len(text) + 1 times
FindallCount(pat, c) ==
  IF pat = <<>> THEN CharLen(c) + 1
  ELSE CountIn(View(c, pat, Len(c)), pat, FALSE)

\* len(re.findall(r'\b' + re.escape(pat) + r'\b', text)); r'\b\b' matches at
\* every word boundary
FindallCountB(pat, c) ==
  IF pat = <<>> THEN BoundaryCount(c)
  ELSE CountIn(View(c, pat, Len(c)), pat, TRUE)

\* re.search(pat, text) is not None;  pat in text
Search(pat, c) == FindallCount(pat, c) > 0

RECURSIVE SumMatches(_, _, _)
\* sum(len(re.findall(k, text)) for k in the first m patterns of pats)
SumMatches(pats, c, m) ==
  IF m = 0 THEN 0
  ELSE FindallCount(pats[m], c) + SumMatches(pats, c, m - 1)

\* the number of patterns of pats that re.search finds in text
CuesFound(pats, c) == Cardinality({m \in DOMAIN pats : Search(pats[m], c)})

(* ------------------------ module-level tables ------------------------- *)

\* main.py: the pattern lists, one token sequence per phrase
M_EEAT_EXPERIENCE_KEYWORDS ==
  << <<"i", " ", "tested">>,
     <<"in", " ", "my", " ", "experience">>,
     <<"my", " ", "results">>,
     <<"proprietary", " ", "data">>,
     <<"i", " ", "found", " ", "that">>,
     <<"after", " ", "using">>,
     <<"i", " ", "discovered">>,
     <<"original", " ", "analysis">> >>

M_EEAT_TRUST_KEYWORDS ==
  << <<"author", ":">>,
     <<"byline">>,
     <<"credentials">>,
     <<"references">>,
     <<"cited">>,
     <<"disclaimer">>,
     <<"verified", " ", "by">>,
     <<"published", " ", "in">> >>

M_SPAM_MANIPULATION_KEYWORDS ==
  << <<"buy", " ", "now">>,
     <<"best", " ", "price">>,
     <<"click", " ", "here">>,
     <<"unbeatable">>,
     <<"limited", " ", "time", " ", "offer">>,
     <<"money", " ", "back", " ", "guarantee">>,
     <<"must", " ", "have">> >>

M_AI_DISCLOSURE_KEYWORDS ==
  << <<"ai", "-", "generated">>,
     <<"automated", " ", "content">>,
     <<"large", " ", "language", " ", "model">>,
     <<"edited", " ", "by", " ", "ai">> >>

M_REPETITIVE_PATTERNS ==
  << <<"it", " ", "is", " ", "a", " ", "great">>,
     <<"this", " ", "is", " ", "the", " ", "best">>,
     <<"very", " ", "great">>,
     <<"fantastic", " ", "opportunity">> >>

\* streamlit_app.py: the pattern lists
S_EEAT_TRUST_KEYWORDS ==
  << <<"author", ":">>,
     <<"cited">>,
     <<"sources">>,
     <<"data", " ", "suggests">>,
     <<"peer", "-", "reviewed">>,
     <<"methodology">>,
     <<"disclosure">> >>

S_EEAT_EXPERIENCE_KEYWORDS ==
  << <<"i", " ", "found", " ", "that">>,
     <<"after", " ", "using">>,
     <<"i", " ", "discovered">>,
     <<"original", " ", "analysis">>,
     <<"hands", "-", "on">>,
     <<"i", " ", "tested">>,
     <<"first", "-", "hand">> >>

S_UTILITY_KEYWORDS ==
  << <<"step", "-", "by", "-", "step">>,
     <<"how", " ", "to">>,
     <<"tutorial">>,
     <<"actionable">>,
     <<"comprehensive">>,
     <<"guide">>,
     <<"in", "-", "depth">> >>

S_SPAMMY_KEYWORDS ==
  << <<"buy", " ", "now">>,
     <<"click", " ", "here">>,
     <<"unbeatable", " ", "deal">>,
     <<"limited", " ", "time", " ", "offer">>,
     <<"guaranteed">>,
     <<"cash", " ", "back">>,
     <<"instant", " ", "access">> >>

S_REPETITIVE_PHRASES ==
  << <<"very", " ", "good", " ", "article">>,
     <<"is", " ", "a", " ", "great", " ", "product">>,
     <<"fantastic", " ", "opportunity">>,
     <<"the", " ", "best", " ", "thing">> >>

S_AI_DISCLOSURE_KEYWORDS ==
  << <<"ai", "-", "generated">>,
     <<"ai", " ", "writer">>,
     <<"automated", " ", "content">>,
     <<"llm">>,
     <<"model", "-", "assisted">> >>

S_FRESHNESS_KEYWORDS ==
  << <<"updated", ":">>,
     <<"current", " ", "as", " ", "of">>,
     <<"latest", " ", "research">>,
     <<"recent", " ", "changes">> >>

S_LINK_PLACEHOLDERS ==
  << <<"[", "internal", " ", "link">>,
     <<"[", "external", " ", "link">> >>

\* main.py WEIGHTS, in tenths of a point
M_WEIGHTS ==
  [ EEAT_EXPERIENCE |-> 200,
    EEAT_TRUST_EXPERT |-> 150,
    UTILITY_DEPTH |-> 150,
    KEYWORD_RELEVANCE |-> 250,
    INTEGRITY_COMPLIANCE |-> 250 ]

\* streamlit_app.py: the section maxima, in points
EEAT_MAX_SCORE == 40
KEYWORD_MAX_SCORE == 20
INTEGRITY_MAX_SCORE == 20
TECH_MAX_SCORE == 20
\* KEYWORD_DENSITY_TARGET = (0.5, 2.5), in tenths of a percent
KEYWORD_DENSITY_TARGET == <<5, 25>>
KEYWORD_PLACEMENT_LENGTH == 150
MIN_WORD_COUNT == 300

\* every module-level table of both files, as the interpreter holds them
ModuleTables ==
  [ M_WEIGHTS |-> M_WEIGHTS,
    M_EEAT_EXPERIENCE_KEYWORDS |-> M_EEAT_EXPERIENCE_KEYWORDS,
    M_EEAT_TRUST_KEYWORDS |-> M_EEAT_TRUST_KEYWORDS,
    M_SPAM_MANIPULATION_KEYWORDS |-> M_SPAM_MANIPULATION_KEYWORDS,
    M_AI_DISCLOSURE_KEYWORDS |-> M_AI_DISCLOSURE_KEYWORDS,
    M_REPETITIVE_PATTERNS |-> M_REPETITIVE_PATTERNS,
    S_EEAT_TRUST_KEYWORDS |-> S_EEAT_TRUST_KEYWORDS,
    S_EEAT_EXPERIENCE_KEYWORDS |-> S_EEAT_EXPERIENCE_KEYWORDS,
    S_UTILITY_KEYWORDS |-> S_UTILITY_KEYWORDS,
    S_SPAMMY_KEYWORDS |-> S_SPAMMY_KEYWORDS,
    S_REPETITIVE_PHRASES |-> S_REPETITIVE_PHRASES,
    S_AI_DISCLOSURE_KEYWORDS |-> S_AI_DISCLOSURE_KEYWORDS,
    S_FRESHNESS_KEYWORDS |-> S_FRESHNESS_KEYWORDS,
    S_LINK_PLACEHOLDERS |-> S_LINK_PLACEHOLDERS,
    EEAT_MAX_SCORE |-> EEAT_MAX_SCORE,
    KEYWORD_MAX_SCORE |-> KEYWORD_MAX_SCORE,
    INTEGRITY_MAX_SCORE |-> INTEGRITY_MAX_SCORE,
    TECH_MAX_SCORE |-> TECH_MAX_SCORE,
    KEYWORD_DENSITY_TARGET |-> KEYWORD_DENSITY_TARGET,
    KEYWORD_PLACEMENT_LENGTH |-> KEYWORD_PLACEMENT_LENGTH,
    MIN_WORD_COUNT |-> MIN_WORD_COUNT ]

(* ------------------------------ state --------------------------------- *)

VARIABLES
  tables,          \* the module-level tables of both files
  fn,              \* the function called: "main", "streamlit", "reading_ease"
  pc,              \* where the call stands: "idle" before it, "done" after
  content,         \* the call's arguments
  target_keyword,
  word_count,      \* local word_count
  sections,        \* main: the section results computed so far
  findings,        \* streamlit: the local dict findings
  score,           \* integrity: local score / score_integrity
  total_penalty,   \* main integrity: local total_penalty
  penalty_count,   \* streamlit integrity: local penalty_count
  flist,           \* main integrity: local list findings
  report,          \* what the last completed call returned
  err,             \* the exception a call raised, "none" otherwise
  seen             \* an earlier call's arguments and result, kept for comparison

vars ==
  << tables, fn, pc, content, target_keyword, word_count, sections, findings,
     score, total_penalty, penalty_count, flist, report, err, seen >>

Min(a, b) == IF a <= b THEN a ELSE b
Max(a, b) == IF a >= b THEN a ELSE b

\* a value num/den; den = 0 marks a division whose divisor was zero
Ratio(a, b) == [num |-> a, den |-> b]
\* Python's a / b: ZeroDivisionError when b = 0
Divide(a, b) == Ratio(a, b)
Raised(q) == q.den = 0

\* one finding of main.py: {"type": ..., "text": ...}; the text is kept as its
\* fixed part and the number formatted into it
Finding(type, text, n) == [type |-> type, text |-> text, n |-> n]

(* --------------------------- main.py: E-E-A-T --------------------------- *)

\* main.check_eeat, part 1: Experience & Originality
M_Experience(content_lower) ==
  LET experience_matches ==
        SumMatches(tables.M_EEAT_EXPERIENCE_KEYWORDS, content_lower,
                   Len(tables.M_EEAT_EXPERIENCE_KEYWORDS))
  IN IF experience_matches >= 5
     THEN [pts |-> tables.M_WEIGHTS.EEAT_EXPERIENCE,
           f |-> Finding("Good", "experience strong", experience_matches)]
     ELSE IF experience_matches >= 1
     THEN [pts |-> (tables.M_WEIGHTS.EEAT_EXPERIENCE * 5) \div 10,
           f |-> Finding("Warn", "experience some", experience_matches)]
     ELSE [pts |-> 0, f |-> Finding("Missing", "experience lacking", 0)]

\* a trust check that does not look for the byline "author:"
M_Trust_NoByline(content_lower) ==
  LET trust_matches ==
        SumMatches(tables.M_EEAT_TRUST_KEYWORDS, content_lower,
                   Len(tables.M_EEAT_TRUST_KEYWORDS))
  IN IF trust_matches >= 3
     THEN [pts |-> tables.M_WEIGHTS.EEAT_TRUST_EXPERT,
           f |-> Finding("Good", "trust cues", trust_matches)]
     ELSE [pts |-> (tables.M_WEIGHTS.EEAT_TRUST_EXPERT * 2) \div 10,
           f |-> Finding("Missing", "trust weak", 0)]

\* main.check_eeat, part 2: Trustworthiness & Expertise
M_Trust(content_lower) ==
  LET trust_matches ==
        SumMatches(tables.M_EEAT_TRUST_KEYWORDS, content_lower,
                   Len(tables.M_EEAT_TRUST_KEYWORDS))
  IN IF trust_matches >= 3 \/ Search(<<"author", ":">>, content_lower)
     THEN [pts |-> tables.M_WEIGHTS.EEAT_TRUST_EXPERT,
           f |-> Finding("Good", "trust cues", trust_matches)]
     ELSE [pts |-> (tables.M_WEIGHTS.EEAT_TRUST_EXPERT * 2) \div 10,
           f |-> Finding("Missing", "trust weak", 0)]

\* a depth check with full points from 1000 words on
M_Utility_Thousand(wc) ==
  IF wc >= 1000
  THEN [pts |-> tables.M_WEIGHTS.UTILITY_DEPTH,
        f |-> Finding("Good", "depth substantial", wc)]
  ELSE IF wc < 300
  THEN [pts |-> (tables.M_WEIGHTS.UTILITY_DEPTH * 1) \div 10,
        f |-> Finding("Missing", "too short", wc)]
  ELSE [pts |-> (tables.M_WEIGHTS.UTILITY_DEPTH * 7) \div 10,
        f |-> Finding("Warn", "mid-range length", wc)]

\* main.check_eeat, part 3: Utility & Depth
M_Utility(wc) ==
  IF wc >= 800
  THEN [pts |-> tables.M_WEIGHTS.UTILITY_DEPTH,
        f |-> Finding("Good", "depth substantial", wc)]
  ELSE IF wc < 300
  THEN [pts |-> (tables.M_WEIGHTS.UTILITY_DEPTH * 1) \div 10,
        f |-> Finding("Missing", "too short", wc)]
  ELSE [pts |-> (tables.M_WEIGHTS.UTILITY_DEPTH * 7) \div 10,
        f |-> Finding("Warn", "mid-range length", wc)]

\* main.check_eeat: (round(score, 2), findings)
M_check_eeat(content_lower, wc) ==
  LET e == M_Experience(content_lower)
      t == M_Trust(content_lower)
      u == M_Utility(wc)
  IN [score |-> e.pts + t.pts + u.pts, findings |-> <<e.f, t.f, u.f>>]

(* ---------------------- main.py: keyword relevance ---------------------- *)

\* M_Density without the guard word_count > 0
M_Density_Unguarded(keyword_matches, wc) == Divide(100 * keyword_matches, wc)

\* density = (keyword_matches / word_count) * 100 if word_count > 0 else 0
M_Density(keyword_matches, wc) ==
  IF wc > 0 THEN Divide(100 * keyword_matches, wc) ELSE Ratio(0, 1)

\* M_DensityCheck with the Warn band below the optimum only
M_DensityCheck_NoOverBand(d) ==
  IF d.den <= d.num /\ d.num <= 3 * d.den
  THEN [pts |-> 150, f |-> Finding("Good", "density optimal", d.num)]
  ELSE IF d.den < 2 * d.num /\ d.num < d.den
  THEN [pts |-> 100, f |-> Finding("Warn", "density sub-optimal", d.num)]
  ELSE IF d.num > 3 * d.den
  THEN [pts |-> 0, f |-> Finding("Missing", "density high", d.num)]
  ELSE [pts |-> 0, f |-> Finding("Missing", "density very low", d.num)]

\* the density branch of main.check_keyword_relevance; d is a Ratio, den > 0
M_DensityCheck(d) ==
  IF d.den <= d.num /\ d.num <= 3 * d.den
  THEN [pts |-> 150, f |-> Finding("Good", "density optimal", d.num)]
  ELSE IF \/ d.den < 2 * d.num /\ d.num < d.den
          \/ 3 * d.den < d.num /\ d.num <= 4 * d.den
  THEN [pts |-> 100, f |-> Finding("Warn", "density sub-optimal", d.num)]
  ELSE IF d.num > 4 * d.den
  THEN [pts |-> 0, f |-> Finding("Missing", "density high", d.num)]
  ELSE [pts |-> 0, f |-> Finding("Missing", "density very low", d.num)]

\* re.findall(r'\b\w+\b', text)[:k], as word items
FirstWords(c, k) ==
  LET before(i) == WordCount(SubSeq(c, 1, i - 1))
      take == [i \in DOMAIN c |->
                 IF IsWord(c[i].s)
                 THEN R(c[i].s, Max(0, Min(c[i].n, k - before(i))))
                 ELSE R(c[i].s, 0)]
  IN SelectSeq(take, LAMBDA it : it.n > 0)

\* " ".join(words)
JoinSpace(ws) ==
  [j \in 1..(IF ws = <<>> THEN 0 ELSE 2 * Len(ws) - 1) |->
     IF j % 2 = 1 THEN ws[(j + 1) \div 2] ELSE T(" ")]

\* the placement branch of main.check_keyword_relevance
M_Placement(c, keyword_lower) ==
  LET first_100_words == LowerText(JoinSpace(FirstWords(c, 100)))
  IN IF keyword_lower # <<>> /\ Search(Plain(keyword_lower), first_100_words)
     THEN [pts |-> 100, f |-> Finding("Good", "keyword in first 100 words", 0)]
     ELSE IF keyword_lower = <<>>
     THEN [pts |-> 0, f |-> Finding("Warn", "no target keyword", 0)]
     ELSE [pts |-> 0, f |-> Finding("Missing", "keyword not in intro", 0)]

\* main.check_keyword_relevance: (round(score, 2), findings), or raised
M_check_keyword_relevance(c, kw, wc) ==
  LET keyword_lower == LowerText(kw)
      keyword_matches == FindallCountB(Plain(keyword_lower), LowerText(c))
      density == M_Density(keyword_matches, wc)
  IN IF Raised(density) THEN [raised |-> TRUE, score |-> 0, findings |-> <<>>]
     ELSE LET d == M_DensityCheck(density)
              p == M_Placement(c, keyword_lower)
          IN [raised |-> FALSE, score |-> d.pts + p.pts,
              findings |-> <<d.f, p.f>>]

(* -------------------------- main.py: integrity -------------------------- *)

\* the locals of main.check_integrity_compliance
M_Locals(sc, tp, fl) == [score |-> sc, total_penalty |-> tp, findings |-> fl]

\* a spam penalty of 5 points for every match, without the cap of 10
M_SpamStep_Uncapped(st, content_lower) ==
  LET spam_matches ==
        SumMatches(tables.M_SPAM_MANIPULATION_KEYWORDS, content_lower,
                   Len(tables.M_SPAM_MANIPULATION_KEYWORDS))
      penalty == spam_matches * 50
  IN IF spam_matches > 0
     THEN M_Locals(st.score - penalty, st.total_penalty + penalty,
                   Append(st.findings, Finding("Missing", "spam", spam_matches)))
     ELSE st

\* Penalty 1: Spam/Commercial Language
M_SpamStep(st, content_lower) ==
  LET spam_matches ==
        SumMatches(tables.M_SPAM_MANIPULATION_KEYWORDS, content_lower,
                   Len(tables.M_SPAM_MANIPULATION_KEYWORDS))
      penalty == Min(spam_matches * 50, 100)
  IN IF spam_matches > 0
     THEN M_Locals(st.score - penalty, st.total_penalty + penalty,
                   Append(st.findings, Finding("Missing", "spam", spam_matches)))
     ELSE st

\* Penalty 2: Repetitive/Formulaic Patterns
M_RepetitiveStep(st, content_lower) ==
  LET repetitive_matches ==
        SumMatches(tables.M_REPETITIVE_PATTERNS, content_lower,
                   Len(tables.M_REPETITIVE_PATTERNS))
  IN IF repetitive_matches >= 3
     THEN M_Locals(st.score - 50, st.total_penalty + 50,
                   Append(st.findings,
                          Finding("Missing", "repetitive", repetitive_matches)))
     ELSE st

\* is_ai_disclosed = any(k in content_lower for k in AI_DISCLOSURE_KEYWORDS)
M_is_ai_disclosed(content_lower) ==
  \E m \in DOMAIN tables.M_AI_DISCLOSURE_KEYWORDS :
     Search(tables.M_AI_DISCLOSURE_KEYWORDS[m], content_lower)

\* M_TransparencyStep without the test total_penalty > 0
M_TransparencyStep_Always(st, content_lower) ==
  IF M_is_ai_disclosed(content_lower)
  THEN M_Locals(st.score, st.total_penalty,
                Append(st.findings, Finding("Good", "ai disclosed", 0)))
  ELSE M_Locals(st.score - 100, st.total_penalty + 100,
                st.findings \o << Finding("Missing", "ai not disclosed", 0),
                                  Finding("Missing", "CRITICAL", 0) >>)

\* M_TransparencyStep with a penalty of 5 in place of 10
M_TransparencyStep_Five(st, content_lower) ==
  IF M_is_ai_disclosed(content_lower)
  THEN M_Locals(st.score, st.total_penalty,
                Append(st.findings, Finding("Good", "ai disclosed", 0)))
  ELSE IF st.total_penalty > 0
  THEN M_Locals(st.score - 50, st.total_penalty + 50,
                st.findings \o << Finding("Missing", "ai not disclosed", 0),
                                  Finding("Missing", "CRITICAL", 0) >>)
  ELSE M_Locals(st.score, st.total_penalty,
                Append(st.findings, Finding("Missing", "ai not disclosed", 0)))

\* Transparency Check & Penalty 3
M_TransparencyStep(st, content_lower) ==
  IF M_is_ai_disclosed(content_lower)
  THEN M_Locals(st.score, st.total_penalty,
                Append(st.findings, Finding("Good", "ai disclosed", 0)))
  ELSE IF st.total_penalty > 0
  THEN M_Locals(st.score - 100, st.total_penalty + 100,
                st.findings \o << Finding("Missing", "ai not disclosed", 0),
                                  Finding("Missing", "CRITICAL", 0) >>)
  ELSE M_Locals(st.score, st.total_penalty,
                Append(st.findings, Finding("Missing", "ai not disclosed", 0)))

\* FINAL ZERO-OUT RULE, and the returned max(0, score)
M_ZeroOutStep(st) ==
  IF st.total_penalty >= 200
  THEN M_Locals(0, st.total_penalty,
                Append(st.findings, Finding("Missing", "TOTAL FAILURE", 0)))
  ELSE M_Locals(Max(0, st.score), st.total_penalty, st.findings)

(* --------------------------- main.py: the call -------------------------- *)

NoReport == [variant |-> "none"]
NoFindings == [priority_actions |-> <<>>]

\* one section of results["sections"]
M_Section(sc, mx, fl) == [score |-> sc, max |-> mx, findings |-> fl]

\* M_TotalScore with the integrity section left out of the sum
M_TotalScore_NoIntegrity(secs) == secs.eeat.score + secs.keyword.score

\* results["total_score"] = score_eeat + score_keyword + score_integrity
M_TotalScore(secs) ==
  secs.eeat.score + secs.keyword.score + secs.integrity.score

\* analyze_content(content, target_keyword) is entered: lines 43-51
M_Call ==
  /\ fn = "main" /\ pc = "idle"
  /\ pc' = "m_eeat"
  /\ word_count' = WordCount(content)
  /\ UNCHANGED << tables, fn, content, target_keyword, sections, findings,
                  score, total_penalty, penalty_count, flist, report, err,
                  seen >>

\* score_eeat, findings_eeat = check_eeat(content_lower, word_count)
M_CheckEEAT ==
  /\ pc = "m_eeat"
  /\ LET r == M_check_eeat(LowerText(content), word_count)
     IN sections' =
          [eeat |-> M_Section(r.score,
                              tables.M_WEIGHTS.EEAT_EXPERIENCE
                                + tables.M_WEIGHTS.EEAT_TRUST_EXPERT
                                + tables.M_WEIGHTS.UTILITY_DEPTH,
                              r.findings)]
  /\ pc' = "m_keyword"
  /\ UNCHANGED << tables, fn, content, target_keyword, word_count, findings, score,
                  total_penalty, penalty_count, flist, report, err, seen >>

\* score_keyword, findings_keyword = check_keyword_relevance(...)
M_CheckKeywordRelevance ==
  /\ pc = "m_keyword"
  /\ LET r == M_check_keyword_relevance(content, target_keyword, word_count)
     IN IF r.raised
        THEN /\ pc' = "raised"
             /\ err' = "ZeroDivisionError"
             /\ UNCHANGED << sections, score >>
        ELSE /\ pc' = "m_spam"
             /\ err' = "none"
             /\ sections' =
                  [eeat |-> sections.eeat,
                   keyword |-> M_Section(r.score,
                                         tables.M_WEIGHTS.KEYWORD_RELEVANCE,
                                         r.findings)]
             /\ score' = score
  /\ UNCHANGED << tables, fn, content, target_keyword, word_count, findings,
                  total_penalty, penalty_count, flist, report, seen >>

\* the integrity locals, as one record, and their assignment
M_Now == M_Locals(score, total_penalty, flist)
M_Assign(st) ==
  /\ score' = st.score
  /\ total_penalty' = st.total_penalty
  /\ flist' = st.findings

\* check_integrity_compliance starts at the section weight with no penalty
M_Spam ==
  /\ pc = "m_spam"
  /\ M_Assign(M_SpamStep(M_Locals(tables.M_WEIGHTS.INTEGRITY_COMPLIANCE, 0, <<>>),
                         LowerText(content)))
  /\ pc' = "m_rep"
  /\ UNCHANGED << tables, fn, content, target_keyword, word_count, sections,
                  findings, penalty_count, report, err, seen >>

M_Repetitive ==
  /\ pc = "m_rep"
  /\ M_Assign(M_RepetitiveStep(M_Now, LowerText(content)))
  /\ pc' = "m_ai"
  /\ UNCHANGED << tables, fn, content, target_keyword, word_count, sections,
                  findings, penalty_count, report, err, seen >>

M_Transparency ==
  /\ pc = "m_ai"
  /\ M_Assign(M_TransparencyStep(M_Now, LowerText(content)))
  /\ pc' = "m_zero"
  /\ UNCHANGED << tables, fn, content, target_keyword, word_count, sections,
                  findings, penalty_count, report, err, seen >>

M_ZeroOut ==
  /\ pc = "m_zero"
  /\ M_Assign(M_ZeroOutStep(M_Now))
  /\ pc' = "m_ret"
  /\ UNCHANGED << tables, fn, content, target_keyword, word_count, sections,
                  findings, penalty_count, report, err, seen >>

\* lines 180-185: the sections are stored, the total is summed, results
\* returned; the report is kept together with the arguments of its call
M_Results ==
  LET secs == [eeat |-> sections.eeat,
               keyword |-> sections.keyword,
               integrity |-> M_Section(score,
                                       tables.M_WEIGHTS.INTEGRITY_COMPLIANCE,
                                       flist)]
  IN [variant |-> "main",
      content |-> content,
      target_keyword |-> target_keyword,
      word_count |-> word_count,
      total_score |-> M_TotalScore(secs),
      sections |-> secs]

M_Return ==
  /\ pc = "m_ret"
  /\ report' = M_Results
  /\ pc' = "done"
  /\ UNCHANGED << tables, fn, content, target_keyword, word_count, sections,
                  findings, score, total_penalty, penalty_count, flist, err,
                  seen >>

(* --------------------- streamlit_app.py: segmentation ------------------- *)

\* text.strip(): the items between the first and the last non-whitespace item
Strip(c) ==
  LET keep == {i \in DOMAIN c : c[i].s \notin Whitespace}
  IN IF keep = {} THEN <<>>
     ELSE LET lo == CHOOSE i \in keep : \A j \in keep : i <= j
              hi == CHOOSE i \in keep : \A j \in keep : i >= j
          IN SubSeq(c, lo, hi)

RECURSIVE SplitBlank(_, _)
\* content.split('\n\n'), the pieces from item from on
SplitBlank(c, from) ==
  LET seps == {i \in from..(Len(c) - 1) : c[i].s = "\n" /\ c[i + 1].s = "\n"}
  IN IF seps = {} THEN << SubSeq(c, from, Len(c)) >>
     ELSE LET i == CHOOSE x \in seps : \A y \in seps : x <= y
          IN << SubSeq(c, from, i - 1) >> \o SplitBlank(c, i + 2)

\* [p.strip() for p in content.split('\n\n') if p.strip()]
Paragraphs(c) ==
  LET pieces == SplitBlank(c, 1)
  IN SelectSeq([i \in DOMAIN pieces |-> Strip(pieces[i])],
               LAMBDA p : p # <<>>)

\* text[:k]; a word cut by the slice is dropped
TakeChars(c, k) ==
  LET before(i) == CharLen(SubSeq(c, 1, i - 1))
      take == [i \in DOMAIN c |->
                 R(c[i].s, Max(0, Min(c[i].n, (k - before(i) + 1)
                                                \div (Len(c[i].s) + 1))))]
  IN SelectSeq(take, LAMBDA it : it.n > 0)

\* title_match = re.search(r'^#\s*(.*)', content, re.MULTILINE): the group,
\* as [found, text]
TitleMatch(c) ==
  LET starts == {i \in DOMAIN c : c[i].s = "#" /\ (i = 1 \/ c[i - 1].s = "\n")}
  IN IF starts = {} THEN [found |-> FALSE, text |-> <<>>]
     ELSE LET i == CHOOSE x \in starts : \A y \in starts : x <= y
              rest == {j \in (i + 1)..Len(c) : c[j].s \notin Whitespace}
              b == IF rest = {} THEN Len(c) + 1
                   ELSE CHOOSE x \in rest : \A y \in rest : x <= y
              nls == {j \in b..Len(c) : c[j].s = "\n"}
              e == IF nls = {} THEN Len(c)
                   ELSE (CHOOSE x \in nls : \A y \in nls : x <= y) - 1
          IN [found |-> TRUE, text |-> SubSeq(c, b, e)]

\* len(re.findall(r'^##\s', content, re.MULTILINE))
H2Count(c) ==
  Cardinality({i \in 1..(Len(c) - 2) :
                 /\ c[i].s = "#" /\ (i = 1 \/ c[i - 1].s = "\n")
                 /\ c[i + 1].s = "#"
                 /\ c[i + 2].s \in Whitespace})

Terminators == {".", "!", "?"}

\* len(re.findall(r'[.!?]+', text)): the maximal runs of terminators
TerminatorRuns(c) ==
  Cardinality({i \in DOMAIN c :
                 /\ c[i].s \in Terminators
                 /\ (i = 1 \/ c[i - 1].s \notin Terminators)})

\* re.search(r'\?\s*\w{2,}:', content)
QuestionAnswer(c) ==
  LET v == Plain(c)
  IN \E i \in DOMAIN v :
       /\ v[i] = "?"
       /\ \E j \in (i + 1)..(Len(v) - 1) :
            /\ \A k \in (i + 1)..(j - 1) : v[k] \in Whitespace
            /\ IsWord(v[j]) /\ Len(v[j]) >= 2
            /\ v[j + 1] = ":"

(* ----------------------- streamlit_app.py: findings -------------------- *)

\* one cue or missing signal: the fixed part of its text and the number or
\* keyword index formatted into it
Sig(text, n) == [text |-> text, n |-> n]

S_Section(mx) == [score |-> 0, cues |-> <<>>, missing |-> <<>>, max |-> mx]

\* S_InitFindings with priority_actions a list that outlives the call
S_InitFindings_Kept ==
  [ priority_actions |-> findings.priority_actions,
    eeat |-> S_Section(tables.EEAT_MAX_SCORE),
    keyword |-> S_Section(tables.KEYWORD_MAX_SCORE),
    integrity |-> S_Section(tables.INTEGRITY_MAX_SCORE),
    technical |-> S_Section(tables.TECH_MAX_SCORE) ]

\* the dict findings as analyze_content creates it (lines 139-145)
S_InitFindings ==
  [ priority_actions |-> <<>>,
    eeat |-> S_Section(tables.EEAT_MAX_SCORE),
    keyword |-> S_Section(tables.KEYWORD_MAX_SCORE),
    integrity |-> S_Section(tables.INTEGRITY_MAX_SCORE),
    technical |-> S_Section(tables.TECH_MAX_SCORE) ]

\* an add_missing that puts every signal on the priority list
add_missing_Always(fd, section_key, signal, priority) ==
  [fd EXCEPT ![section_key].missing = Append(@, signal),
             !.priority_actions = Append(@, signal)]

\* add_missing(section_key, signal, priority)
add_missing(fd, section_key, signal, priority) ==
  LET g == [fd EXCEPT ![section_key].missing = Append(@, signal)]
  IN IF priority
     THEN [g EXCEPT !.priority_actions = Append(@, signal)]
     ELSE g

\* findings[section_key]['cues'].append(cue)
add_cue(fd, section_key, cue) ==
  [fd EXCEPT ![section_key].cues = Append(@, cue)]

\* findings[section_key]['cues'] extended by a list of cues
add_cues(fd, section_key, cs) ==
  [fd EXCEPT ![section_key].cues = @ \o cs]

\* one cue per pattern of pats that re.search finds in text, in list order
CuesFor(pats, text, label) ==
  LET idx == SelectSeq([m \in DOMAIN pats |-> m],
                       LAMBDA m : Search(pats[m], text))
  IN [j \in DOMAIN idx |-> Sig(label, idx[j])]

(* ------------------------ streamlit_app.py: E-E-A-T --------------------- *)

\* lines 161-211
S_eeat(fd, c, clean_content) ==
  LET exp == CuesFor(tables.S_EEAT_EXPERIENCE_KEYWORDS, clean_content,
                     "Found Experience cue")
      tru == CuesFor(tables.S_EEAT_TRUST_KEYWORDS, clean_content,
                     "Found Trust cue")
      eeat_cues == Len(exp) + Len(tru)
      f1 == add_cues(add_cues(fd, "eeat", exp), "eeat", tru)
      s1 == IF eeat_cues > 0 THEN Min(25, eeat_cues * 5) ELSE 0
      f2 == IF eeat_cues > 0 THEN f1
            ELSE add_missing(f1, "eeat", Sig("No experience or trust signals", 0),
                             TRUE)
      util == CuesFor(tables.S_UTILITY_KEYWORDS, clean_content,
                      "Found Utility cue")
      utility_cues == Len(util)
      f3 == add_cues(f2, "eeat", util)
      qa == QuestionAnswer(c)
      s2 == IF qa THEN s1 + 5 ELSE s1
      f4 == IF qa THEN add_cue(f3, "eeat", Sig("Question-Answer structure", 0))
            ELSE add_missing(f3, "eeat", Sig("Missing Question-Answer", 0), FALSE)
      author == Search(<<"author", ":">>, clean_content)
      expert == \/ Search(<<"dr", ".">>, clean_content)
                \/ Search(<<"ph", ".", "d", ".">>, clean_content)
      s3 == IF author /\ expert THEN s2 + 5
            ELSE IF author THEN s2 + 2 ELSE s2
      f5 == IF author /\ expert
            THEN add_cue(f4, "eeat", Sig("Author/Expert Persona", 0))
            ELSE IF author
            THEN add_cue(f4, "eeat", Sig("Author declaration", 0))
            ELSE add_missing(f4, "eeat", Sig("No Author/Expert declaration", 0),
                             TRUE)
      score_eeat == IF utility_cues > 0 THEN s3 + Min(5, utility_cues * 2)
                    ELSE s3
      f6 == IF score_eeat = 0
            THEN add_missing(f5, "eeat", Sig("Content appears low-effort", 0),
                             TRUE)
            ELSE f5
  IN [f6 EXCEPT !.eeat.score = Min(tables.EEAT_MAX_SCORE, score_eeat)]

(* ------------------- streamlit_app.py: keyword relevance ---------------- *)

\* the density branch (lines 220-232); raised: the division failed
S_density(fd, keyword_mentions, wc) ==
  IF wc > 0
  THEN LET density == Divide(100 * keyword_mentions, wc)
           lo == tables.KEYWORD_DENSITY_TARGET[1]
           hi == tables.KEYWORD_DENSITY_TARGET[2]
           f1 == add_cue(fd, "keyword", Sig("Keyword Density", keyword_mentions))
       IN IF Raised(density) THEN [raised |-> TRUE, pts |-> 0, fd |-> fd]
          ELSE IF lo * density.den <= 10 * density.num
                  /\ 10 * density.num <= hi * density.den
          THEN [raised |-> FALSE, pts |-> 10, fd |-> f1]
          ELSE IF 10 * density.num < lo * density.den
          THEN [raised |-> FALSE, pts |-> 5,
                fd |-> add_missing(f1, "keyword",
                                   Sig("Keyword density is too low",
                                       keyword_mentions), TRUE)]
          ELSE [raised |-> FALSE, pts |-> 2,
                fd |-> add_missing(f1, "keyword",
                                   Sig("Keyword density is too high",
                                       keyword_mentions), TRUE)]
  ELSE [raised |-> FALSE, pts |-> 0,
        fd |-> add_missing(fd, "keyword", Sig("Content is empty", 0), TRUE)]

\* line 152: intro_content = paragraphs[0].lower() if paragraphs else ""
S_intro_content(paragraphs) ==
  IF paragraphs # <<>> THEN LowerText(paragraphs[1]) ELSE <<>>

\* a conclusion taken from the last paragraph whenever there is a paragraph
S_conclusion_content_Last(paragraphs) ==
  IF paragraphs # <<>> THEN LowerText(paragraphs[Len(paragraphs)]) ELSE <<>>

\* line 153: conclusion_content = paragraphs[-1].lower()
\*           if len(paragraphs) > 1 else ""
S_conclusion_content(paragraphs) ==
  IF Len(paragraphs) > 1 THEN LowerText(paragraphs[Len(paragraphs)]) ELSE <<>>

\* the placement checks (lines 234-255): title, introduction, conclusion
S_placement(fd, c, keyword_lower) ==
  LET paragraphs == Paragraphs(c)
      intro_content == S_intro_content(paragraphs)
      conclusion_content == S_conclusion_content(paragraphs)
      title_match == TitleMatch(c)
      in_title == /\ title_match.found
                  /\ Search(Plain(keyword_lower), LowerText(title_match.text))
      in_intro ==
        Search(Plain(keyword_lower),
               TakeChars(intro_content, tables.KEYWORD_PLACEMENT_LENGTH))
      in_conclusion == Search(Plain(keyword_lower), conclusion_content)
      f1 == IF in_title
            THEN add_cue(fd, "keyword", Sig("Keyword found in the Title", 0))
            ELSE add_missing(fd, "keyword",
                             Sig("Keyword missing from the Title", 0), TRUE)
      f2 == IF in_intro
            THEN add_cue(f1, "keyword",
                         Sig("Keyword found in the Introduction", 0))
            ELSE add_missing(f1, "keyword",
                             Sig("Keyword missing from the first 150 characters",
                                 0), TRUE)
      f3 == IF in_conclusion
            THEN add_cue(f2, "keyword",
                         Sig("Keyword found in the Conclusion", 0))
            ELSE add_missing(f2, "keyword",
                             Sig("Keyword missing from the Conclusion", 0),
                             FALSE)
  IN [pts |-> (IF in_title THEN 4 ELSE 0) + (IF in_intro THEN 4 ELSE 0)
                + (IF in_conclusion THEN 2 ELSE 0),
      fd |-> f3]

\* lines 214-257
S_keyword(fd, c, kw, wc) ==
  LET clean_content == LowerText(c)
      keyword_lower == LowerText(kw)
      keyword_mentions == FindallCount(Plain(keyword_lower), clean_content)
      d == S_density(fd, keyword_mentions, wc)
      p == S_placement(d.fd, c, keyword_lower)
  IN [raised |-> d.raised,
      fd |-> [p.fd EXCEPT !.keyword.score =
                Min(tables.KEYWORD_MAX_SCORE, d.pts + p.pts)]]

(* ---------------------- streamlit_app.py: integrity --------------------- *)

\* the locals of the integrity block: score_integrity, penalty_count, findings
S_Locals(sc, n, fd) == [score |-> sc, penalty_count |-> n, findings |-> fd]

\* S_SpamStep without score_integrity -= 5
S_SpamStep_NoDeduct(st, clean_content) ==
  LET cues == CuesFor(tables.S_SPAMMY_KEYWORDS, clean_content,
                      "Found Spam signal")
      spam_cues == Len(cues)
      f1 == add_cues(st.findings, "integrity", cues)
  IN IF spam_cues > 0
     THEN S_Locals(st.score, st.penalty_count + 1,
                   add_missing(f1, "integrity",
                               Sig("Excessive commercial/spammy language",
                                   spam_cues), TRUE))
     ELSE S_Locals(st.score, st.penalty_count,
                   add_cue(f1, "integrity", Sig("Clean language", 0)))

\* a spam penalty of 5 points for every match, 10 at most
S_SpamStep_PerMatch(st, clean_content) ==
  LET cues == CuesFor(tables.S_SPAMMY_KEYWORDS, clean_content,
                      "Found Spam signal")
      spam_cues == Len(cues)
      matches == SumMatches(tables.S_SPAMMY_KEYWORDS, clean_content,
                            Len(tables.S_SPAMMY_KEYWORDS))
      f1 == add_cues(st.findings, "integrity", cues)
  IN IF spam_cues > 0
     THEN S_Locals(st.score - Min(matches * 5, 10), st.penalty_count + 1,
                   add_missing(f1, "integrity",
                               Sig("Excessive commercial/spammy language",
                                   spam_cues), TRUE))
     ELSE S_Locals(st.score, st.penalty_count,
                   add_cue(f1, "integrity", Sig("Clean language", 0)))

\* A. Spammy Language Penalty (lines 264-275)
S_SpamStep(st, clean_content) ==
  LET cues == CuesFor(tables.S_SPAMMY_KEYWORDS, clean_content,
                      "Found Spam signal")
      spam_cues == Len(cues)
      f1 == add_cues(st.findings, "integrity", cues)
  IN IF spam_cues > 0
     THEN S_Locals(st.score - 5, st.penalty_count + 1,
                   add_missing(f1, "integrity",
                               Sig("Excessive commercial/spammy language",
                                   spam_cues), TRUE))
     ELSE S_Locals(st.score, st.penalty_count,
                   add_cue(f1, "integrity", Sig("Clean language", 0)))

\* B. Repetitive/Formulaic Penalty (lines 277-288)
S_RepetitiveStep(st, clean_content) ==
  LET pats == tables.S_REPETITIVE_PHRASES
      idx == SelectSeq([m \in DOMAIN pats |-> m],
                       LAMBDA m : FindallCount(pats[m], clean_content) > 1)
      cues == [j \in DOMAIN idx |-> Sig("Found Repetitive/Formulaic cue", idx[j])]
      repetitive_cues == Len(cues)
      f1 == add_cues(st.findings, "integrity", cues)
  IN IF repetitive_cues > 0
     THEN S_Locals(st.score - 5, st.penalty_count + 1,
                   add_missing(f1, "integrity",
                               Sig("Formulaic/Repetitive phrases detected",
                                   repetitive_cues), TRUE))
     ELSE S_Locals(st.score, st.penalty_count,
                   add_cue(f1, "integrity", Sig("Low repetition", 0)))

\* ai_disclosed = any(re.search(k, clean_content) for k in AI_DISCLOSURE_KEYWORDS)
S_ai_disclosed(clean_content) ==
  \E m \in DOMAIN tables.S_AI_DISCLOSURE_KEYWORDS :
     Search(tables.S_AI_DISCLOSURE_KEYWORDS[m], clean_content)

\* S_TransparencyStep with the test "not ai_disclosed" dropped from the penalty
S_TransparencyStep_Unconditional(st, clean_content) ==
  LET ai_disclosed == S_ai_disclosed(clean_content)
  IN IF st.score < 20
     THEN S_Locals(st.score - 5, st.penalty_count + 1,
                   add_missing(st.findings, "integrity",
                               Sig("AI Transparency Missing", 0), TRUE))
     ELSE IF ai_disclosed
     THEN S_Locals(st.score, st.penalty_count,
                   add_cue(st.findings, "integrity",
                           Sig("AI Use is Disclosed", 0)))
     ELSE S_Locals(st.score, st.penalty_count,
                   add_cue(st.findings, "integrity",
                           Sig("AI Use not present or non-penalizing", 0)))

\* an undisclosed-AI penalty that is not counted as a penalty event
S_TransparencyStep_NoEvent(st, clean_content) ==
  LET ai_disclosed == S_ai_disclosed(clean_content)
  IN IF ~ai_disclosed /\ st.score < 20
     THEN S_Locals(st.score - 5, st.penalty_count,
                   add_missing(st.findings, "integrity",
                               Sig("AI Transparency Missing", 0), TRUE))
     ELSE IF ai_disclosed
     THEN S_Locals(st.score, st.penalty_count,
                   add_cue(st.findings, "integrity",
                           Sig("AI Use is Disclosed", 0)))
     ELSE S_Locals(st.score, st.penalty_count,
                   add_cue(st.findings, "integrity",
                           Sig("AI Use not present or non-penalizing", 0)))

\* C. AI Transparency Penalty (lines 290-300)
S_TransparencyStep(st, clean_content) ==
  LET ai_disclosed == S_ai_disclosed(clean_content)
  IN IF ~ai_disclosed /\ st.score < 20
     THEN S_Locals(st.score - 5, st.penalty_count + 1,
                   add_missing(st.findings, "integrity",
                               Sig("AI Transparency Missing", 0), TRUE))
     ELSE IF ai_disclosed
     THEN S_Locals(st.score, st.penalty_count,
                   add_cue(st.findings, "integrity",
                           Sig("AI Use is Disclosed", 0)))
     ELSE S_Locals(st.score, st.penalty_count,
                   add_cue(st.findings, "integrity",
                           Sig("AI Use not present or non-penalizing", 0)))

\* S_ThinStep without penalty_count += 1
S_ThinStep_NoEvent(st, wc) ==
  IF wc < tables.MIN_WORD_COUNT
  THEN S_Locals(st.score - 5, st.penalty_count,
                add_missing(st.findings, "integrity",
                            Sig("Content is too thin", wc), TRUE))
  ELSE st

\* a thin-content penalty that reaches content of exactly MIN_WORD_COUNT words
S_ThinStep_Inclusive(st, wc) ==
  IF wc <= tables.MIN_WORD_COUNT
  THEN S_Locals(st.score - 5, st.penalty_count + 1,
                add_missing(st.findings, "integrity",
                            Sig("Content is too thin", wc), TRUE))
  ELSE st

\* D. Thin Content Penalty (lines 302-306)
S_ThinStep(st, wc) ==
  IF wc < tables.MIN_WORD_COUNT
  THEN S_Locals(st.score - 5, st.penalty_count + 1,
                add_missing(st.findings, "integrity",
                            Sig("Content is too thin", wc), TRUE))
  ELSE st

\* a zero score rule that needs three penalty events
S_ZeroOutStep_Three(st) ==
  LET f1 == IF st.penalty_count >= 3
            THEN add_cue(st.findings, "integrity", Sig("TOTAL FAILURE", 0))
            ELSE st.findings
      sc == IF st.penalty_count >= 3 THEN 0
            ELSE IF st.score < 0 THEN 0 ELSE st.score
  IN S_Locals(sc, st.penalty_count,
              [f1 EXCEPT !.integrity.score =
                 Min(tables.INTEGRITY_MAX_SCORE, sc)])

\* E. Zero Score Rule, and findings['integrity']['score'] (lines 308-315)
S_ZeroOutStep(st) ==
  LET f1 == IF st.penalty_count >= 2
            THEN add_cue(st.findings, "integrity", Sig("TOTAL FAILURE", 0))
            ELSE st.findings
      sc == IF st.penalty_count >= 2 THEN 0
            ELSE IF st.score < 0 THEN 0 ELSE st.score
  IN S_Locals(sc, st.penalty_count,
              [f1 EXCEPT !.integrity.score =
                 Min(tables.INTEGRITY_MAX_SCORE, sc)])

(* ---------------------- streamlit_app.py: technical --------------------- *)

\* lines 317-364
S_technical(fd, c, clean_content) ==
  LET freshness_cues == CuesFound(tables.S_FRESHNESS_KEYWORDS, clean_content)
      internal_links ==
        FindallCount(<<"[", "internal", " ", "link">>, clean_content)
      external_links ==
        FindallCount(<<"[", "external", " ", "link">>, clean_content)
      h2_count == H2Count(c)
      paragraphs == Paragraphs(c)
      long_paragraphs ==
        Cardinality({i \in DOMAIN paragraphs :
                       TerminatorRuns(paragraphs[i]) > 7})
      f1 == IF freshness_cues > 0
            THEN add_cue(fd, "technical",
                         Sig("Found Freshness Cues", freshness_cues))
            ELSE add_missing(fd, "technical", Sig("No Freshness signals", 0),
                             TRUE)
      f2 == IF internal_links >= 2
            THEN add_cue(f1, "technical",
                         Sig("Found Internal Link placeholders", internal_links))
            ELSE add_missing(f1, "technical", Sig("Need more Internal Link", 0),
                             FALSE)
      f3 == IF external_links >= 1
            THEN add_cue(f2, "technical",
                         Sig("Found External Link placeholders", external_links))
            ELSE add_missing(f2, "technical", Sig("Missing External Link", 0),
                             TRUE)
      f4 == IF h2_count >= 3
            THEN add_cue(f3, "technical",
                         Sig("Found primary section headings", h2_count))
            ELSE add_missing(f3, "technical",
                             Sig("Need more primary section headings", 0), TRUE)
      f5 == IF long_paragraphs = 0 /\ Len(paragraphs) > 5
            THEN add_cue(f4, "technical", Sig("Paragraphs are short", 0))
            ELSE IF long_paragraphs > 0
            THEN add_missing(f4, "technical",
                             Sig("Found long paragraphs", long_paragraphs), TRUE)
            ELSE f4
      score_tech ==
          (IF freshness_cues > 0 THEN Min(5, freshness_cues * 3) ELSE 0)
        + (IF internal_links >= 2 THEN 3 ELSE 0)
        + (IF external_links >= 1 THEN 2 ELSE 0)
        + (IF h2_count >= 3 THEN 5 ELSE 0)
        + (IF long_paragraphs = 0 /\ Len(paragraphs) > 5 THEN 5
           ELSE IF long_paragraphs > 0 THEN 2 ELSE 0)
  IN [f5 EXCEPT !.technical.score = Min(tables.TECH_MAX_SCORE, score_tech)]

\* Final Score Aggregation (lines 367-368)
S_TotalScore(fd) ==
  fd.eeat.score + fd.keyword.score + fd.integrity.score + fd.technical.score

(* ---------------------- streamlit_app.py: the call ---------------------- *)

\* analyze_content(content, target_keyword) is entered: lines 139-153
S_Call ==
  /\ fn = "streamlit" /\ pc = "idle"
  /\ pc' = "s_eeat"
  /\ findings' = S_InitFindings
  /\ word_count' = WordCount(LowerText(content))
  /\ UNCHANGED << tables, fn, content, target_keyword, sections, score,
                  total_penalty, penalty_count, flist, report, err, seen >>

S_EEAT ==
  /\ pc = "s_eeat"
  /\ findings' = S_eeat(findings, content, LowerText(content))
  /\ pc' = "s_keyword"
  /\ UNCHANGED << tables, fn, content, target_keyword, word_count, sections,
                  score, total_penalty, penalty_count, flist, report, err,
                  seen >>

S_Keyword ==
  /\ pc = "s_keyword"
  /\ LET r == S_keyword(findings, content, target_keyword, word_count)
     IN IF r.raised
        THEN /\ pc' = "raised"
             /\ err' = "ZeroDivisionError"
             /\ UNCHANGED findings
        ELSE /\ pc' = "s_spam"
             /\ err' = "none"
             /\ findings' = r.fd
  /\ UNCHANGED << tables, fn, content, target_keyword, word_count, sections,
                  score, total_penalty, penalty_count, flist, report, seen >>

\* the integrity locals, as one record, and their assignment
S_Now == S_Locals(score, penalty_count, findings)
S_Assign(st) ==
  /\ score' = st.score
  /\ penalty_count' = st.penalty_count
  /\ findings' = st.findings

\* score_integrity = 20; penalty_count = 0; then block A
S_Spam ==
  /\ pc = "s_spam"
  /\ S_Assign(S_SpamStep(S_Locals(20, 0, findings), LowerText(content)))
  /\ pc' = "s_rep"
  /\ UNCHANGED << tables, fn, content, target_keyword, word_count, sections,
                  total_penalty, flist, report, err, seen >>

S_Repetitive ==
  /\ pc = "s_rep"
  /\ S_Assign(S_RepetitiveStep(S_Now, LowerText(content)))
  /\ pc' = "s_ai"
  /\ UNCHANGED << tables, fn, content, target_keyword, word_count, sections,
                  total_penalty, flist, report, err, seen >>

S_Transparency ==
  /\ pc = "s_ai"
  /\ S_Assign(S_TransparencyStep(S_Now, LowerText(content)))
  /\ pc' = "s_thin"
  /\ UNCHANGED << tables, fn, content, target_keyword, word_count, sections,
                  total_penalty, flist, report, err, seen >>

S_Thin ==
  /\ pc = "s_thin"
  /\ S_Assign(S_ThinStep(S_Now, word_count))
  /\ pc' = "s_zero"
  /\ UNCHANGED << tables, fn, content, target_keyword, word_count, sections,
                  total_penalty, flist, report, err, seen >>

S_ZeroOut ==
  /\ pc = "s_zero"
  /\ S_Assign(S_ZeroOutStep(S_Now))
  /\ pc' = "s_tech"
  /\ UNCHANGED << tables, fn, content, target_keyword, word_count, sections,
                  total_penalty, flist, report, err, seen >>

S_Technical ==
  /\ pc = "s_tech"
  /\ findings' = S_technical(findings, content, LowerText(content))
  /\ pc' = "s_ret"
  /\ UNCHANGED << tables, fn, content, target_keyword, word_count, sections,
                  score, total_penalty, penalty_count, flist, report, err,
                  seen >>

\* return findings, total_score, word_count, paragraphs; the report is kept
\* together with the arguments of its call
S_Results ==
  [variant |-> "streamlit",
   content |-> content,
   target_keyword |-> target_keyword,
   findings |-> findings,
   total_score |-> S_TotalScore(findings),
   word_count |-> word_count,
   paragraphs |-> Paragraphs(content)]

S_Return ==
  /\ pc = "s_ret"
  /\ report' = S_Results
  /\ pc' = "done"
  /\ UNCHANGED << tables, fn, content, target_keyword, word_count, sections,
                  findings, score, total_penalty, penalty_count, flist, err,
                  seen >>

(* ---------------- streamlit_app.py: calculate_reading_ease -------------- *)

\* len(re.findall(r'[aeiouy]+', word)) for each lower-case word of the texts
\* and patterns
VowelRuns(w) ==
  CASE w \in
      {"d", "dr", "llm", "ph"} -> 0
    [] w \in
      {"a", "ai", "as", "back", "best", "buy", "by", "cash", "click",
       "deal", "depth", "first", "found", "fryer", "good", "great", "hand",
       "hands", "how", "i", "in", "is", "it", "link", "must", "my", "now",
       "of", "on", "part", "peer", "step", "that", "the", "thing", "this",
       "to", "what", "yes"} -> 1
    [] w \in
      {"access", "after", "answer", "author", "changes", "cited",
       "content", "current", "data", "guide", "have", "here", "instant",
       "jane", "large", "latest", "lorem", "model", "money", "offer",
       "oven", "price", "product", "recent", "research", "results",
       "sources", "suggests", "tested", "time", "toaster", "using", "very",
       "writer"} -> 2
    [] w \in
      {"article", "assisted", "byline", "credentials", "disclaimer",
       "edited", "external", "fantastic", "guarantee", "guaranteed",
       "internal", "language", "limited", "published", "reviewed",
       "tutorial", "updated", "verified"} -> 3
    [] w \in
      {"actionable", "analysis", "automated", "disclosure", "discovered",
       "experience", "generated", "original", "proprietary", "references",
       "unbeatable"} -> 4
    [] w \in
      {"comprehensive", "methodology", "opportunity"} -> 5

\* sentences = [s.strip() for s in re.split(r'[.!?]+', text) if s.strip()]:
\* the number of pieces between terminator runs that hold a non-blank item
SentenceCount(c) ==
  Cardinality({i \in DOMAIN c :
     /\ c[i].s \notin Terminators
     /\ c[i].s \notin Whitespace
     /\ \A j \in 1..(i - 1) :
          (c[j].s \notin Terminators /\ c[j].s \notin Whitespace)
            => \E k \in (j + 1)..(i - 1) : c[k].s \in Terminators})

\* syllables = sum(len(re.findall(r'[aeiouy]+', word.lower())) for word in words)
Syllables(c) ==
  SumN([i \in DOMAIN c |->
          IF IsWord(c[i].s) THEN c[i].n * VowelRuns(Lower(c[i].s)) ELSE 0],
       Len(c))

\* the guard of line 118: not words or not sentences
RE_Degenerate(words, sentences) == words = 0 \/ sentences = 0

\* score >= t for score = 206.835 - 1.015 * ASL - 84.6 * ASW, with
\* ASL = asl.num / asl.den and ASW = asw.num / asw.den (all terms over 5)
RE_AtLeast(asl, asw, t) ==
  (41367 - 200 * t) * asl.den * asw.den
    >= 203 * asl.num * asw.den + 16920 * asw.num * asl.den

\* calculate_reading_ease(text): [raised, score (a Ratio), grade]
calculate_reading_ease(text) ==
  LET sentences == SentenceCount(text)
      words == WordCount(text)
      syllables == Syllables(text)
  IN IF RE_Degenerate(words, sentences)
     THEN [raised |-> FALSE, score |-> Ratio(100, 1), grade |-> "N/A"]
     ELSE LET ASL == Divide(words, sentences)
              ASW == Divide(syllables, words)
          IN IF Raised(ASL) \/ Raised(ASW)
             THEN [raised |-> TRUE, score |-> Ratio(0, 1), grade |-> "none"]
             ELSE [raised |-> FALSE,
                   score |->
                     IF ~RE_AtLeast(ASL, ASW, 0) THEN Ratio(0, 1)
                     ELSE IF RE_AtLeast(ASL, ASW, 100) THEN Ratio(100, 1)
                     ELSE Ratio(41367 * ASL.den * ASW.den
                                  - 203 * ASL.num * ASW.den
                                  - 16920 * ASW.num * ASL.den,
                                200 * ASL.den * ASW.den),
                   grade |->
                     IF RE_AtLeast(ASL, ASW, 80) THEN "Very Easy (5th Grade)"
                     ELSE IF RE_AtLeast(ASL, ASW, 70)
                     THEN "Easy (6th-7th Grade)"
                     ELSE IF RE_AtLeast(ASL, ASW, 60)
                     THEN "Fairly Easy (8th-9th Grade)"
                     ELSE "Complex (Post-Graduate)"]

\* reading_ease, ease_grade = calculate_reading_ease(content)
ReadingEase ==
  /\ fn = "reading_ease" /\ pc = "idle"
  /\ LET r == calculate_reading_ease(content)
     IN IF r.raised
        THEN /\ pc' = "raised"
             /\ err' = "ZeroDivisionError"
             /\ UNCHANGED report
        ELSE /\ pc' = "done"
             /\ err' = "none"
             /\ report' = [variant |-> "reading_ease", content |-> content,
                           score |-> r.score, grade |-> r.grade]
  /\ UNCHANGED << tables, fn, content, target_keyword, word_count, sections,
                  findings, score, total_penalty, penalty_count, flist, seen >>

(* ------------------------------ inputs --------------------------------- *)

\* bounds of the inputs: how often a spam phrase, a formulaic phrase and the
\* keyword are written into a text
MaxSpam == 3
MaxRep == 3
MaxKw == 8

RECURSIVE Repeat(_, _)
Repeat(seq, k) == IF k = 0 THEN <<>> ELSE seq \o Repeat(seq, k - 1)

\* "lorem lorem ... lorem." with k words
Fill(k) == << R("lorem", k), T(".") >>

SpamSentence == << T("Buy"), T(" "), T("now"), T("."), T(" ") >>
RepSentence == << T("fantastic"), T(" "), T("opportunity"), T("."), T(" ") >>
AISentence == << T("ai"), T("-"), T("generated"), T("."), T(" ") >>

\* sp spam phrases, rp formulaic phrases, an AI disclosure (ai = 1) and filler
\* up to wc words in all
IntegrityText(sp, rp, ai, wc) ==
  Repeat(SpamSentence, sp) \o Repeat(RepSentence, rp) \o Repeat(AISentence, ai)
    \o Fill(Max(1, wc - 2 * sp - 2 * rp - 2 * ai))

\* the keyword k times and filler, wc words in all
DensityText(k, wc) ==
  (IF k = 0 THEN <<>> ELSE << R("Oven", k), T(" ") >>) \o Fill(wc - k)

DensityWordCounts == {100, 150, 200}

\* texts without words or without sentences, and the shortest texts with both
DegenerateTexts ==
  { <<>>, << T(" ") >>, << T(".") >>, << T("."), T("."), T(".") >>,
    << T("\n"), T("\n") >>, << T("?"), T(" "), T("!") >>, << T("#") >>,
    << T("-"), T(" "), T("-") >>, << T("lorem") >> }

Heading(w) == << T("#"), T("#"), T(" "), T(w), T("\n"), T("\n") >>
Blank == << T("\n"), T("\n") >>

\* an article with a title, a byline, cues of every kind, headings, links and
\* a conclusion; cues: how often "i tested" is written; k: words of filler
RichText(cues, k) ==
  << T("#"), T(" "), T("Oven"), T(" "), T("tutorial") >> \o Blank
  \o << T("Author"), T(":"), T(" "), T("dr"), T("."), T(" "), T("jane"),
        T("."), T(" "), T("Oven"), T(" "), T("guide"), T(".") >> \o Blank
  \o Repeat(<< T("i"), T(" "), T("tested"), T("."), T(" ") >>, cues)
  \o << T("hands"), T("-"), T("on"), T("."), T(" "), T("cited"), T(" "),
        T("sources"), T(".") >> \o Blank
  \o Heading("part")
  \o << T("what"), T("?"), T(" "), T("answer"), T(":"), T(" "), T("yes"),
        T(".") >> \o Blank
  \o Heading("part")
  \o << T("updated"), T(":"), T(" "), T("latest"), T(" "), T("research"),
        T(".") >> \o Blank
  \o Heading("part")
  \o << T("["), T("internal"), T(" "), T("link"), T("]"), T(" "),
        T("["), T("internal"), T(" "), T("link"), T("]"), T(" "),
        T("["), T("external"), T(" "), T("link"), T("]") >> \o Blank
  \o Fill(k) \o Blank
  \o << T("oven"), T(".") >>

IntegrityInputs ==
  { [content |-> IntegrityText(sp, rp, ai, wc), kw |-> kw] :
      sp \in 0..MaxSpam, rp \in 0..MaxRep, ai \in {0, 1},
      wc \in {MIN_WORD_COUNT - 1, MIN_WORD_COUNT},
      kw \in { <<>>, << T("oven") >> } }

DensityInputs ==
  { [content |-> DensityText(k, wc), kw |-> kw] :
      k \in 0..MaxKw, wc \in DensityWordCounts,
      kw \in { << T("oven") >>, << T("Oven") >> } }

DegenerateInputs ==
  { [content |-> c, kw |-> kw] :
      c \in DegenerateTexts, kw \in { <<>>, << T("oven") >> } }

RichInputs ==
  { [content |-> RichText(cues, k), kw |-> kw] :
      cues \in {1, 5}, k \in {20, 800}, kw \in { <<>>, << T("oven") >> } }

\* texts of one, two and three blocks, separated or surrounded by one to four
\* newlines, and one with a line of a single space between two sentences
ParagraphTexts ==
  { << T("Oven"), T(".") >>,
    << T("oven"), T("."), T("\n"), T("lorem"), T(".") >>,
    << T("oven"), T("."), T("\n"), T("\n"), T("lorem"), T(".") >>,
    << T("lorem"), T("."), T("\n"), T("\n"), T("\n"), T("Oven"), T(".") >>,
    << T("\n"), T("\n"), T(" "), T("lorem"), T("."), T(" "), T("\n"), T("\n"),
       T("\n"), T("\n"), T(" "), T("oven"), T(" "), T("guide"), T("."),
       T("\n"), T("\n") >>,
    << T("lorem"), T("."), T("\n"), T(" "), T("\n"), T("oven"), T(".") >>,
    << T("oven"), T("."), T("\n"), T("\n"), T("lorem"), T("."), T("\n"),
       T("\n"), T("guide"), T(".") >> }

\* how often a trust cue is written into a text
MaxTrust == 4

\* a text with a byline (au) and n sentences with the trust cue "cited"
TrustText(n, au) ==
  (IF au THEN << T("Author"), T(":"), T(" "), T("jane"), T("."), T(" ") >>
   ELSE <<>>)
    \o Repeat(<< T("cited"), T("."), T(" ") >>, n) \o Fill(10)

TrustInputs ==
  { [content |-> TrustText(n, au), kw |-> << T("oven") >>] :
      n \in 0..MaxTrust, au \in BOOLEAN }

\* filler texts with word counts on either side of 300, 800 and 1000
LengthWordCounts == {299, 300, 799, 800, 999, 1000}

LengthInputs ==
  { [content |-> Fill(wc), kw |-> << T("oven") >>] : wc \in LengthWordCounts }

\* texts with a hyphenated and a two-word phrase at the start, and with a
\* word or phrase at the 100th and 101st word
PlacementTexts ==
  { << T("air"), T("-"), T("Fryer"), T(" ") >> \o Fill(20),
    << T("air"), T(" "), T("Fryer"), T(" ") >> \o Fill(20),
    << R("lorem", 99), T(" "), T("Oven"), T(".") >>,
    << R("lorem", 100), T(" "), T("oven"), T(".") >>,
    << R("lorem", 98), T(" "), T("air"), T("-"), T("fryer"), T(".") >>,
    << R("lorem", 99), T(" "), T("air"), T("-"), T("fryer"), T(".") >>,
    << R("lorem", 100), T(" "), T("air"), T(" "), T("fryer"), T(".") >> }

PlacementInputs ==
  { [content |-> c, kw |-> kw] :
      c \in PlacementTexts,
      kw \in { << T("oven") >>, << T("air"), T("-"), T("fryer") >>,
               << T("Air"), T(" "), T("fryer") >> } }

ParagraphInputs ==
  { [content |-> c, kw |-> kw] :
      c \in ParagraphTexts, kw \in { <<>>, << T("oven") >> } }

Inputs ==
  IntegrityInputs \cup DensityInputs \cup DegenerateInputs \cup RichInputs
    \cup ParagraphInputs \cup TrustInputs \cup LengthInputs
    \cup PlacementInputs

\* the texts calculate_reading_ease is called on
ReadingTexts ==
  DegenerateTexts
    \cup { DensityText(k, 100) : k \in 0..MaxKw }
    \cup { IntegrityText(sp, rp, 0, 20) : sp \in 0..MaxSpam, rp \in 0..MaxRep }
    \cup { RichText(1, 20) }

(* --------------------------- the specification -------------------------- *)

\* the state before a call of f on the arguments c, kw
Before(f, c, kw) ==
  /\ tables = ModuleTables
  /\ fn = f
  /\ pc = "idle"
  /\ content = c
  /\ target_keyword = kw
  /\ word_count = 0
  /\ sections = <<>>
  /\ findings = NoFindings
  /\ score = 0
  /\ total_penalty = 0
  /\ penalty_count = 0
  /\ flist = <<>>
  /\ report = NoReport
  /\ err = "none"
  /\ seen = NoReport

Init ==
  \/ \E f \in {"main", "streamlit"} : \E inp \in Inputs :
       Before(f, inp.content, inp.kw)
  \/ \E c \in ReadingTexts : Before("reading_ease", c, <<>>)

Next ==
  \/ M_Call \/ M_CheckEEAT \/ M_CheckKeywordRelevance \/ M_Spam
  \/ M_Repetitive \/ M_Transparency \/ M_ZeroOut \/ M_Return
  \/ S_Call \/ S_EEAT \/ S_Keyword \/ S_Spam \/ S_Repetitive
  \/ S_Transparency \/ S_Thin \/ S_ZeroOut \/ S_Technical \/ S_Return
  \/ ReadingEase

Spec == Init /\ [][Next]_vars

(* ------------------------- a session of calls --------------------------- *)

\* the arguments of the calls of a session
SeqInputs ==
  { [content |-> IntegrityText(1, 2, 0, 12), kw |-> << >>],
    [content |-> IntegrityText(0, 0, 1, 12), kw |-> << T("oven") >>],
    [content |-> DensityText(2, 100), kw |-> << T("Oven") >>] }

\* The application calls analyze_content again on every Analyze click: after a
\* call has returned, the next one is made on new arguments.  The report of
\* the call that returned may be kept in seen.  The locals of the call that
\* returned keep their values here; a call has to set each before reading it.
NextCall ==
  /\ pc = "done"
  /\ fn \in {"main", "streamlit"}
  /\ \E f \in {"main", "streamlit"} : \E inp \in SeqInputs :
       /\ fn' = f
       /\ content' = inp.content
       /\ target_keyword' = inp.kw
  /\ pc' = "idle"
  /\ \/ seen' = report
     \/ UNCHANGED seen
  /\ UNCHANGED << tables, word_count, sections, findings, score, total_penalty,
                  penalty_count, flist, report, err >>

InitSeq ==
  \E f \in {"main", "streamlit"} : \E inp \in SeqInputs :
     Before(f, inp.content, inp.kw)

NextSeq ==
  \/ M_Call \/ M_CheckEEAT \/ M_CheckKeywordRelevance \/ M_Spam
  \/ M_Repetitive \/ M_Transparency \/ M_ZeroOut \/ M_Return
  \/ S_Call \/ S_EEAT \/ S_Keyword \/ S_Spam \/ S_Repetitive
  \/ S_Transparency \/ S_Thin \/ S_ZeroOut \/ S_Technical \/ S_Return
  \/ NextCall

SpecSeq == InitSeq /\ [][NextSeq]_vars

(* ------------------------------ properties ------------------------------ *)

\* what a call's arguments contain, read off the content itself
M_SpamFired(c) ==
  SumMatches(M_SPAM_MANIPULATION_KEYWORDS, LowerText(c),
             Len(M_SPAM_MANIPULATION_KEYWORDS)) > 0
M_RepetitiveFired(c) ==
  SumMatches(M_REPETITIVE_PATTERNS, LowerText(c), Len(M_REPETITIVE_PATTERNS)) >= 3
M_Disclosed(c) ==
  \E m \in DOMAIN M_AI_DISCLOSURE_KEYWORDS :
     Search(M_AI_DISCLOSURE_KEYWORDS[m], LowerText(c))
S_SpamFired(c) ==
  \E m \in DOMAIN S_SPAMMY_KEYWORDS : Search(S_SPAMMY_KEYWORDS[m], LowerText(c))
S_RepetitiveFired(c) ==
  \E m \in DOMAIN S_REPETITIVE_PHRASES :
     FindallCount(S_REPETITIVE_PHRASES[m], LowerText(c)) > 1
S_ThinFired(c) == WordCount(LowerText(c)) < MIN_WORD_COUNT
S_Disclosed(c) ==
  \E m \in DOMAIN S_AI_DISCLOSURE_KEYWORDS :
     Search(S_AI_DISCLOSURE_KEYWORDS[m], LowerText(c))

\* how many of the three events spam, repetitive, thin content fire
S_EventCount(c) ==
  (IF S_SpamFired(c) THEN 1 ELSE 0) + (IF S_RepetitiveFired(c) THEN 1 ELSE 0)
    + (IF S_ThinFired(c) THEN 1 ELSE 0)

\* a finding or signal with the given text is in the list
Has(list, text) == \E i \in DOMAIN list : list[i].text = text
\* the position of the first one in the list, 0 if there is none
At(list, text) ==
  IF Has(list, text)
  THEN CHOOSE i \in DOMAIN list :
         list[i].text = text /\ \A j \in 1..(i - 1) : list[j].text # text
  ELSE 0

MainDone == fn = "main" /\ pc = "done"
StreamlitDone == fn = "streamlit" /\ pc = "done"

\* 0 <= score <= max
Within(sec) == 0 <= sec.score /\ sec.score <= sec.max

\* C1: in the report of either analyze_content every section has
\* 0 <= score <= max, total_score is the sum of the section scores, and
\* 0 <= total_score <= the sum of the section maxima, which is 100 points.
C1_ScoresWithinBounds ==
  /\ MainDone =>
       LET secs == report.sections
       IN /\ Within(secs.eeat) /\ Within(secs.keyword) /\ Within(secs.integrity)
          /\ report.total_score
               = secs.eeat.score + secs.keyword.score + secs.integrity.score
          /\ secs.eeat.max + secs.keyword.max + secs.integrity.max = 1000
          /\ 0 <= report.total_score /\ report.total_score <= 1000
  /\ StreamlitDone =>
       LET fd == report.findings
       IN /\ Within(fd.eeat) /\ Within(fd.keyword) /\ Within(fd.integrity)
          /\ Within(fd.technical)
          /\ report.total_score
               = fd.eeat.score + fd.keyword.score + fd.integrity.score
                   + fd.technical.score
          /\ fd.eeat.max + fd.keyword.max + fd.integrity.max + fd.technical.max
               = 100
          /\ 0 <= report.total_score /\ report.total_score <= 100

\* a main report whose integrity section was zeroed: the total is the sum of
\* the other two sections
C1_Witness ==
  /\ MainDone
  /\ report.sections.integrity.score = 0
  /\ report.sections.eeat.score > 0
  /\ report.total_score
       = report.sections.eeat.score + report.sections.keyword.score

\* C2: in streamlit_app.analyze_content, when at least two of the events spam,
\* repetitive, thin content fire, the Integrity score is exactly 0 and the
\* TOTAL FAILURE finding is present, with or without an AI disclosure and
\* whatever number of points was deducted.
C2_ZeroOut ==
  (StreamlitDone /\ S_EventCount(content) >= 2) =>
     /\ report.findings.integrity.score = 0
     /\ Has(report.findings.integrity.cues, "TOTAL FAILURE")

\* spam and thin content with an AI disclosure: two events, 10 points deducted
C2_Witness ==
  /\ StreamlitDone
  /\ S_SpamFired(content) /\ S_ThinFired(content) /\ ~S_RepetitiveFired(content)
  /\ S_Disclosed(content)
  /\ score = 0 /\ penalty_count = 2
  /\ Has(report.findings.integrity.cues, "TOTAL FAILURE")

\* C3: in both variants, content that fires none of the spam, repetitive and
\* thin-content penalties and has no AI disclosure loses no Integrity points:
\* the Integrity score is the section maximum and neither a TOTAL FAILURE nor
\* a critical finding is emitted.
C3_CleanUndisclosed ==
  /\ (/\ MainDone
      /\ ~M_SpamFired(content) /\ ~M_RepetitiveFired(content)
      /\ ~M_Disclosed(content)) =>
       LET sec == report.sections.integrity
       IN /\ sec.score = sec.max /\ sec.max = 250
          /\ ~Has(sec.findings, "TOTAL FAILURE")
          /\ ~Has(sec.findings, "CRITICAL")
  /\ (/\ StreamlitDone
      /\ S_EventCount(content) = 0
      /\ ~S_Disclosed(content)) =>
       LET sec == report.findings.integrity
       IN /\ sec.score = sec.max /\ sec.max = 20
          /\ ~Has(sec.cues, "TOTAL FAILURE")
          /\ ~Has(sec.missing, "AI Transparency Missing")

\* a streamlit report on clean, long enough content without a disclosure
C3_Witness ==
  /\ StreamlitDone
  /\ S_EventCount(content) = 0 /\ ~S_Disclosed(content)
  /\ report.findings.integrity.score = 20
  /\ Has(report.findings.integrity.cues, "AI Use not present or non-penalizing")

\* C4: in both variants, when an AI-disclosure pattern is in the content the
\* transparency step records a Good finding, subtracts nothing from the
\* Integrity score and adds no penalty event, whatever penalties have fired.
C4_DisclosedNoPenalty ==
  [][ /\ (pc = "m_ai" /\ M_Disclosed(content)) =>
           /\ score' = score
           /\ total_penalty' = total_penalty
           /\ flist' = Append(flist, Finding("Good", "ai disclosed", 0))
      /\ (pc = "s_ai" /\ S_Disclosed(content)) =>
           /\ score' = score
           /\ penalty_count' = penalty_count
           /\ findings' = add_cue(findings, "integrity",
                                  Sig("AI Use is Disclosed", 0)) ]_vars

\* the streamlit transparency step has run on disclosed content after the
\* spam and the repetitive penalty both fired
C4_Witness ==
  /\ fn = "streamlit" /\ pc = "s_thin"
  /\ S_Disclosed(content) /\ S_SpamFired(content) /\ S_RepetitiveFired(content)
  /\ score = 10 /\ penalty_count = 2
  /\ Has(findings.integrity.cues, "AI Use is Disclosed")

\* the streamlit transparency step has run
S_PastTransparency ==
  fn = "streamlit" /\ pc \in {"s_thin", "s_zero", "s_tech", "s_ret", "done"}

\* the undisclosed-AI penalty has been recorded
S_AIPenalised == Has(findings.integrity.missing, "AI Transparency Missing")

\* C5 as stated: the undisclosed-AI penalty of streamlit_app.analyze_content
\* fires if and only if no AI disclosure is present and at least one of the
\* spam, repetitive and thin-content events fired; so thin content without a
\* disclosure receives it.
C5_Original ==
  StreamlitDone =>
    (S_AIPenalised <=> (~S_Disclosed(content) /\ S_EventCount(content) >= 1))

\* C5, amended: streamlit_app.analyze_content evaluates the Integrity
\* penalties in the order spam, repetitive, AI disclosure, thin content; the
\* undisclosed-AI penalty fires if and only if no AI disclosure is present and
\* the spam or the repetitive penalty has fired; content whose only issue is
\* being under 300 words, without a disclosure, does not receive it and
\* scores 15.
C5_TransparencyBeforeThin ==
  /\ S_PastTransparency =>
       (S_AIPenalised <=>
          (/\ ~S_Disclosed(content)
           /\ (S_SpamFired(content) \/ S_RepetitiveFired(content))))
  /\ (fn = "streamlit" /\ pc = "s_thin") =>
       ~Has(findings.integrity.missing, "Content is too thin")
  /\ (fn = "streamlit" /\ pc \in {"s_zero", "s_tech", "s_ret", "done"}) =>
       LET missing == findings.integrity.missing
       IN /\ Has(missing, "Content is too thin") <=> S_ThinFired(content)
          /\ (S_AIPenalised /\ S_ThinFired(content)) =>
                At(missing, "AI Transparency Missing")
                  < At(missing, "Content is too thin")
          /\ (S_SpamFired(content) /\ S_AIPenalised) =>
                At(missing, "Excessive commercial/spammy language")
                  < At(missing, "AI Transparency Missing")
          /\ (S_RepetitiveFired(content) /\ S_AIPenalised) =>
                At(missing, "Formulaic/Repetitive phrases detected")
                  < At(missing, "AI Transparency Missing")
  /\ (/\ StreamlitDone
      /\ S_ThinFired(content) /\ ~S_SpamFired(content)
      /\ ~S_RepetitiveFired(content) /\ ~S_Disclosed(content)) =>
       /\ ~S_AIPenalised
       /\ findings.integrity.score = 15

\* thin content, nothing else, no disclosure: 15 points and no AI penalty
C5_Witness ==
  /\ StreamlitDone
  /\ S_ThinFired(content) /\ ~S_SpamFired(content)
  /\ ~S_RepetitiveFired(content) /\ ~S_Disclosed(content)
  /\ ~S_AIPenalised
  /\ report.findings.integrity.score = 15
  /\ penalty_count = 1

\* C6 as stated: in both variants, on content with spam language and no AI
\* disclosure the undisclosed-AI step subtracts exactly 10 points from the
\* running Integrity score and records a critical finding.
C6_Original ==
  [][ /\ (pc = "m_ai" /\ M_SpamFired(content) /\ ~M_Disclosed(content)) =>
           /\ score' = score - 100
           /\ Has(flist', "CRITICAL")
      /\ (pc = "s_ai" /\ S_SpamFired(content) /\ ~S_Disclosed(content)) =>
           /\ score' = score - 10
           /\ Has(findings'.integrity.missing, "AI Transparency Missing")
    ]_vars

\* C6, amended: on content with spam language and no AI disclosure the
\* undisclosed-AI step of main.analyze_content subtracts exactly 10 points from
\* the running Integrity score and records a critical finding; the step of
\* streamlit_app.analyze_content subtracts exactly 5 points, counts one more
\* penalty event and records a priority Missing finding.
C6_UndisclosedPenalty ==
  [][ /\ (pc = "m_ai" /\ M_SpamFired(content) /\ ~M_Disclosed(content)) =>
           /\ score' = score - 100
           /\ total_penalty' = total_penalty + 100
           /\ flist' = flist \o << Finding("Missing", "ai not disclosed", 0),
                                   Finding("Missing", "CRITICAL", 0) >>
      /\ (pc = "s_ai" /\ S_SpamFired(content) /\ ~S_Disclosed(content)) =>
           /\ score' = score - 5
           /\ penalty_count' = penalty_count + 1
           /\ findings' = add_missing(findings, "integrity",
                                      Sig("AI Transparency Missing", 0), TRUE)
    ]_vars

\* the streamlit step has run on spam without a disclosure: 20 - 5 - 5
C6_Witness ==
  /\ fn = "streamlit" /\ pc = "s_thin"
  /\ S_SpamFired(content) /\ ~S_RepetitiveFired(content) /\ ~S_Disclosed(content)
  /\ score = 10 /\ penalty_count = 2
  /\ S_AIPenalised

\* C7: in both variants, when the target keyword is the empty string the
\* relevance section has score 0 and exactly one finding, a Warn, and no
\* density, title, placement or conclusion check adds points or findings.
C7_EmptyKeywordSkipped ==
  /\ (MainDone /\ target_keyword = << >>) =>
       LET sec == report.sections.keyword
       IN /\ sec.score = 0
          /\ Len(sec.findings) = 1
          /\ sec.findings[1].type = "Warn"
  /\ (StreamlitDone /\ target_keyword = << >>) =>
       LET sec == report.findings.keyword
       IN /\ sec.score = 0
          /\ Len(sec.cues) + Len(sec.missing) = 1

\* the occurrences of the word "oven" in a text, in any case
Occurrences(c) ==
  SumN([i \in DOMAIN c |-> IF Lower(c[i].s) = "oven" THEN c[i].n ELSE 0], Len(c))

\* a main report on content with words, for the keyword "oven"
M_DensityCase ==
  /\ MainDone
  /\ Plain(LowerText(target_keyword)) = << "oven" >>
  /\ report.word_count > 0

\* the density finding of the report and the points it stands for
M_DensityFinding == report.sections.keyword.findings[1]
M_DensityPoints ==
  report.sections.keyword.score
    - (IF report.sections.keyword.findings[2].type = "Good" THEN 100 ELSE 0)

\* C8 as stated: as the occurrences grow the density finding moves through
\* Missing (too low), Warn, Good, Missing (stuffing) in that order, never back
\* to an earlier band: Good with full points on [1.0, 3.0], nothing but
\* Missing (stuffing) beyond it, with 0 points above 4.0.
C8_Original ==
  M_DensityCase =>
    LET k == 100 * Occurrences(content)
        wc == report.word_count
    IN /\ k < wc => M_DensityFinding.type \in {"Missing", "Warn"}
       /\ (wc <= k /\ k <= 3 * wc) =>
            M_DensityFinding.type = "Good" /\ M_DensityPoints = 150
       /\ k > 3 * wc => M_DensityFinding.type = "Missing"
       /\ k > 4 * wc => M_DensityPoints = 0

\* C8, amended: in main.check_keyword_relevance, for word_count > 0 and a
\* non-empty keyword, as the occurrences grow the density finding moves through
\* five bands: Missing (very low) up to 0.5%, Warn above 0.5% and below 1.0%,
\* Good with the full 15 points on [1.0, 3.0], Warn again above 3.0% up to
\* 4.0%, and Missing (stuffing) with 0 points above 4.0%.
C8_DensityBands ==
  M_DensityCase =>
    LET k == 100 * Occurrences(content)
        wc == report.word_count
        f == M_DensityFinding
    IN /\ 2 * k <= wc =>
            f.type = "Missing" /\ f.text = "density very low"
              /\ M_DensityPoints = 0
       /\ (wc < 2 * k /\ k < wc) => f.type = "Warn" /\ M_DensityPoints = 100
       /\ (wc <= k /\ k <= 3 * wc) => f.type = "Good" /\ M_DensityPoints = 150
       /\ (3 * wc < k /\ k <= 4 * wc) =>
            f.type = "Warn" /\ M_DensityPoints = 100
       /\ k > 4 * wc =>
            f.type = "Missing" /\ f.text = "density high" /\ M_DensityPoints = 0

\* a report with the density above 3% and at most 4%: Warn, after Good
C8_Witness ==
  /\ M_DensityCase
  /\ 3 * report.word_count < 100 * Occurrences(content)
  /\ 100 * Occurrences(content) <= 4 * report.word_count
  /\ M_DensityFinding.type = "Warn"
  /\ M_DensityPoints = 100

\* C9: in a session of calls to analyze_content, of either variant, a call's
\* report depends on that call's content and target keyword alone: two calls
\* on the same arguments return the same report, whatever was called in
\* between, and no call changes the module-level weights, thresholds and
\* pattern lists.
C9_Deterministic ==
  /\ tables = ModuleTables
  /\ (/\ pc = "done"
      /\ seen # NoReport
      /\ seen.variant = report.variant
      /\ seen.content = report.content
      /\ seen.target_keyword = report.target_keyword) =>
       report = seen

\* a streamlit call returned the report that an earlier streamlit call on the
\* same arguments returned, with a main call made in the session as well
C9_Witness ==
  /\ StreamlitDone
  /\ seen # NoReport
  /\ seen = report
  /\ sections # << >>
  /\ Len(report.findings.priority_actions) > 0

\* content without words, or without sentences
Degenerate(c) == WordCount(c) = 0 \/ SentenceCount(c) = 0

\* the points of the placement checks that a streamlit report lists
S_PlacementPoints(sec) ==
  (IF Has(sec.cues, "Keyword found in the Title") THEN 4 ELSE 0)
    + (IF Has(sec.cues, "Keyword found in the Introduction") THEN 4 ELSE 0)
    + (IF Has(sec.cues, "Keyword found in the Conclusion") THEN 2 ELSE 0)

\* C10: on degenerate input (empty content, no words or no sentences) both
\* analyze_content variants and calculate_reading_ease complete without an
\* error and without dividing by zero: calculate_reading_ease returns
\* (100, "N/A") and the keyword density check contributes 0 points.
C10_DegenerateInput ==
  Degenerate(content) =>
    /\ err = "none" /\ pc # "raised"
    /\ (fn = "reading_ease" /\ pc = "done") =>
         report.score = Ratio(100, 1) /\ report.grade = "N/A"
    /\ MainDone =>
         LET sec == report.sections.keyword
         IN /\ sec.findings[1].type = "Missing"
            /\ sec.score
                 = (IF sec.findings[2].type = "Good" THEN 100 ELSE 0)
    /\ StreamlitDone =>
         LET sec == report.findings.keyword
         IN /\ ~Has(sec.cues, "Keyword Density")
            /\ sec.score = S_PlacementPoints(sec)

\* calculate_reading_ease has returned on a text of punctuation only
C10_Witness ==
  /\ fn = "reading_ease" /\ pc = "done"
  /\ content = << T("-"), T(" "), T("-") >>
  /\ WordCount(content) = 0 /\ SentenceCount(content) = 1
  /\ report.score = Ratio(100, 1) /\ report.grade = "N/A"

\* the items of a text that are not whitespace
NonBlank(c) == SelectSeq(c, LAMBDA x : x.s \notin Whitespace)

\* an empty line, that is two newlines in a row, lies within c[i..j]
BlankLineBetween(c, i, j) ==
  \E k \in i..(j - 1) : c[k].s = "\n" /\ c[k + 1].s = "\n"

\* the number of blocks of c: runs of text that no empty line cuts
BlockCount(c) ==
  LET ink == {i \in DOMAIN c : c[i].s \notin Whitespace}
      cut == {i \in ink : \E j \in ink :
                /\ i < j
                /\ \A m \in ink : ~(i < m /\ m < j)
                /\ BlankLineBetween(c, i, j)}
  IN IF ink = {} THEN 0 ELSE 1 + Cardinality(cut)

RECURSIVE InkOf(_, _)
\* the non-whitespace items of the first k paragraphs, in order
InkOf(ps, k) ==
  IF k = 0 THEN <<>> ELSE InkOf(ps, k - 1) \o NonBlank(ps[k])

C11_WitnessRuns ==
  /\ StreamlitDone
  /\ Len(report.paragraphs) = 2
  /\ \E k \in 1..(Len(content) - 2) :
       content[k].s = "\n" /\ content[k + 1].s = "\n" /\ content[k + 2].s = "\n"
  /\ Has(report.findings.keyword.cues, "Keyword found in the Conclusion")

\* the missing signals of the four sections, in the order of the sections
S_AllMissing(fd) ==
  fd.eeat.missing \o fd.keyword.missing \o fd.integrity.missing
    \o fd.technical.missing
\* the cues of the four sections
S_AllCues(fd) ==
  fd.eeat.cues \o fd.keyword.cues \o fd.integrity.cues \o fd.technical.cues
\* how often a signal is in a list
Times(list, sig) == Cardinality({i \in DOMAIN list : list[i] = sig})

\* the missing signals that the code records without priority (lines 192,
\* 255, 336)
S_NotPriority ==
  { "Missing Question-Answer", "Keyword missing from the Conclusion",
    "Need more Internal Link" }

\* C12 as stated: priority_actions holds every missing signal of the four
\* sections exactly once and no cue.
C12_Original ==
  StreamlitDone =>
    LET fd == report.findings
        pa == fd.priority_actions
        ms == S_AllMissing(fd)
        cs == S_AllCues(fd)
    IN /\ \A i \in DOMAIN ms : Times(pa, ms[i]) = 1
       /\ \A i \in DOMAIN cs : Times(pa, cs[i]) = 0

\* C12 (amended): priority_actions holds, in the order recorded and each
\* exactly once, the missing signals recorded with priority, that is all but
\* the missing Question-Answer sections, the keyword missing from the
\* conclusion and the too few internal links; it holds no cue.
C12_PriorityActions ==
  StreamlitDone =>
    LET fd == report.findings
        pa == fd.priority_actions
        ms == S_AllMissing(fd)
        cs == S_AllCues(fd)
    IN /\ pa = SelectSeq(ms, LAMBDA x : x.text \notin S_NotPriority)
       /\ \A i \in DOMAIN pa : Times(pa, pa[i]) = 1
       /\ \A i \in DOMAIN ms :
            Times(pa, ms[i]) = IF ms[i].text \in S_NotPriority THEN 0 ELSE 1
       /\ \A i \in DOMAIN cs : Times(pa, cs[i]) = 0

\* a report with a missing signal on the priority list and one that is not
C12_Witness ==
  /\ StreamlitDone
  /\ Has(report.findings.eeat.missing, "Missing Question-Answer")
  /\ ~Has(report.findings.priority_actions, "Missing Question-Answer")
  /\ Has(report.findings.keyword.missing, "Keyword missing from the Title")
  /\ Has(report.findings.priority_actions, "Keyword missing from the Title")

\* the number of matches of the spam patterns of either variant in a text
M_SpamCount(c) ==
  SumMatches(M_SPAM_MANIPULATION_KEYWORDS, LowerText(c),
             Len(M_SPAM_MANIPULATION_KEYWORDS))
S_SpamCount(c) ==
  SumMatches(S_SPAMMY_KEYWORDS, LowerText(c), Len(S_SPAMMY_KEYWORDS))

\* the state right after the spam block of either variant
M_PastSpam == fn = "main" /\ pc = "m_rep"
S_PastSpam == fn = "streamlit" /\ pc = "s_rep"

\* C13 as stated: after the spam block of either variant the Integrity score
\* is the section maximum less min(count x 5, 10) points, count being the
\* number of spam matches, and one penalty event is recorded when count > 0.
C13_Original ==
  /\ M_PastSpam =>
       /\ score = M_WEIGHTS.INTEGRITY_COMPLIANCE - Min(M_SpamCount(content) * 50, 100)
       /\ total_penalty = Min(M_SpamCount(content) * 50, 100)
  /\ S_PastSpam =>
       /\ score = INTEGRITY_MAX_SCORE - Min(S_SpamCount(content) * 5, 10)
       /\ penalty_count = IF S_SpamCount(content) > 0 THEN 1 ELSE 0

\* C13 (amended): main.py subtracts min(count x 5, 10) points and adds as
\* much to total_penalty, with one Missing finding; streamlit_app.py
\* subtracts 5 points and records one penalty event whenever a spam pattern
\* is found, however many matches there are; without a match neither
\* subtracts anything.
C13_SpamPenalty ==
  /\ M_PastSpam =>
       LET count == M_SpamCount(content)
       IN /\ score = M_WEIGHTS.INTEGRITY_COMPLIANCE - Min(count * 50, 100)
          /\ total_penalty = Min(count * 50, 100)
          /\ Len(flist) = IF count > 0 THEN 1 ELSE 0
          /\ count > 0 => flist[1].type = "Missing" /\ flist[1].text = "spam"
  /\ S_PastSpam =>
       LET count == S_SpamCount(content)
       IN /\ score = INTEGRITY_MAX_SCORE - (IF count > 0 THEN 5 ELSE 0)
          /\ penalty_count = IF count > 0 THEN 1 ELSE 0
          /\ Has(findings.integrity.missing,
                 "Excessive commercial/spammy language") <=> count > 0

\* streamlit_app.py past its spam block on a text with two or more spam
\* matches: 5 points subtracted, one event
C13_Witness ==
  /\ S_PastSpam
  /\ S_SpamCount(content) >= 2
  /\ score = INTEGRITY_MAX_SCORE - 5
  /\ penalty_count = 1

\* main.py past its spam block on a text with three spam matches: 10 points
C13_WitnessMain ==
  /\ M_PastSpam
  /\ M_SpamCount(content) = 3
  /\ score = M_WEIGHTS.INTEGRITY_COMPLIANCE - 100

\* the Integrity score of main.py (in tenths) on a text, from its spam
\* matches, formulaic matches and AI disclosure alone
M_IntegrityOf(c) ==
  LET p == Min(M_SpamCount(c) * 50, 100)
             + (IF M_RepetitiveFired(c) THEN 50 ELSE 0)
      tp == IF ~M_Disclosed(c) /\ p > 0 THEN p + 100 ELSE p
  IN IF tp >= 200 THEN 0 ELSE M_WEIGHTS.INTEGRITY_COMPLIANCE - tp

\* C14 as stated: in both variants content of fewer than 300 words loses 5
\* Integrity points to a thin-content penalty, and content of 300 words or
\* more has no such penalty.
C14_Original ==
  /\ (StreamlitDone /\ word_count < 300) =>
       /\ Has(report.findings.integrity.missing, "Content is too thin")
       /\ report.findings.integrity.score <= INTEGRITY_MAX_SCORE - 5
  /\ (StreamlitDone /\ word_count >= 300) =>
       ~Has(report.findings.integrity.missing, "Content is too thin")
  /\ (MainDone /\ word_count < 300) =>
       report.sections.integrity.score <= M_WEIGHTS.INTEGRITY_COMPLIANCE - 50

\* C14 (amended): the thin-content block of streamlit_app.py subtracts 5
\* points and records one penalty event, which counts toward the zero-out,
\* when word_count < 300 and changes nothing when word_count >= 300; the
\* Integrity score of main.py has no thin-content penalty: it is given by the
\* spam, repetitive and disclosure findings whatever the word count.
C14_ThinContent ==
  [][ /\ (fn = "streamlit" /\ pc = "s_thin") =>
           IF word_count < 300
           THEN /\ score' = score - 5
                /\ penalty_count' = penalty_count + 1
                /\ Has(findings'.integrity.missing, "Content is too thin")
                /\ Has(findings'.priority_actions, "Content is too thin")
           ELSE /\ score' = score
                /\ penalty_count' = penalty_count
                /\ findings' = findings
      /\ (fn = "streamlit" /\ pc = "s_zero" /\ word_count < 300
            /\ penalty_count >= 2) =>
           /\ score' = 0
           /\ Has(findings'.integrity.cues, "TOTAL FAILURE")
      /\ (fn = "main" /\ pc' = "done") =>
           /\ report'.sections.integrity.score = M_IntegrityOf(content)
           /\ \A i \in DOMAIN report'.sections.integrity.findings :
                report'.sections.integrity.findings[i].text
                  \in {"spam", "repetitive", "ai disclosed", "ai not disclosed",
                       "CRITICAL", "TOTAL FAILURE"}
    ]_vars

\* streamlit_app.py past its thin-content block on 299 words with one other
\* penalty event: the thin-content event is the second one
C14_Witness ==
  /\ fn = "streamlit" /\ pc = "s_zero"
  /\ word_count = 299
  /\ penalty_count = 2
  /\ score = INTEGRITY_MAX_SCORE - 10
  /\ Has(findings.integrity.missing, "Content is too thin")

\* a main.py report on 299 clean words: full Integrity points
C14_WitnessMain ==
  /\ MainDone
  /\ word_count = 299
  /\ report.sections.integrity.score = M_WEIGHTS.INTEGRITY_COMPLIANCE

\* the number of matches of the trust patterns of main.py in a text
M_TrustCount(c) ==
  SumMatches(M_EEAT_TRUST_KEYWORDS, LowerText(c), Len(M_EEAT_TRUST_KEYWORDS))

\* C15: in main.check_eeat the trust sub-score is the full 15 points with a
\* Good finding if and only if there are at least 3 matches of the trust
\* patterns or "author:" is in the lowercased content; otherwise it is 3
\* points with a Missing finding.
C15_Trust ==
  MainDone =>
    LET sec == report.sections.eeat
        lc == LowerText(content)
        trust == sec.score - M_Experience(lc).pts - M_Utility(word_count).pts
        f == sec.findings[2]
    IN IF M_TrustCount(content) >= 3 \/ Search(<<"author", ":">>, lc)
       THEN trust = 150 /\ f.type = "Good" /\ f.text = "trust cues"
       ELSE trust = 30 /\ f.type = "Missing" /\ f.text = "trust weak"

\* a report on content with a byline and fewer than 3 trust matches: full
\* trust points
C15_Witness ==
  /\ MainDone
  /\ M_TrustCount(content) < 3
  /\ Search(<<"author", ":">>, LowerText(content))
  /\ report.sections.eeat.findings[2].type = "Good"

\* a report on content without a byline and with exactly 2 and exactly 3
\* trust matches
C15_WitnessTwo ==
  /\ MainDone
  /\ M_TrustCount(content) = 2
  /\ report.sections.eeat.findings[2].type = "Missing"
C15_WitnessThree ==
  /\ MainDone
  /\ M_TrustCount(content) = 3
  /\ ~Search(<<"author", ":">>, LowerText(content))
  /\ report.sections.eeat.findings[2].type = "Good"

\* the utility/depth sub-score of a main.py report: what the E-E-A-T score
\* holds beyond the experience and trust sub-scores
M_UtilityOf(r) ==
  r.sections.eeat.score - M_Experience(LowerText(r.content)).pts
    - M_Trust(LowerText(r.content)).pts

\* C16 as stated: the utility/depth sub-score is the full 15 points with a
\* Good finding exactly when word_count >= 1000, 1.5 points with a Missing
\* finding exactly when word_count < 300 and 60% of 15 points with a Warn
\* finding in between.
C16_Original ==
  MainDone =>
    LET f == report.sections.eeat.findings[3]
        utility == M_UtilityOf(report)
    IN CASE word_count >= 1000 -> utility = 150 /\ f.type = "Good"
         [] word_count < 300 -> utility = 15 /\ f.type = "Missing"
         [] OTHER -> utility = 90 /\ f.type = "Warn"

\* C16 (amended): the utility/depth sub-score is the full 15 points with a
\* Good finding exactly when word_count >= 800, 1.5 points (10%) with a
\* Missing finding exactly when word_count < 300 and 10.5 points (70%) with a
\* Warn finding in between.
C16_Utility ==
  MainDone =>
    LET f == report.sections.eeat.findings[3]
        utility == M_UtilityOf(report)
    IN CASE word_count >= 800 ->
              utility = 150 /\ f.type = "Good" /\ f.text = "depth substantial"
         [] word_count < 300 ->
              utility = 15 /\ f.type = "Missing" /\ f.text = "too short"
         [] OTHER ->
              utility = 105 /\ f.type = "Warn" /\ f.text = "mid-range length"

\* a report on content of 800 to 999 words: full depth points
C16_Witness ==
  /\ MainDone
  /\ word_count >= 800 /\ word_count < 1000
  /\ M_UtilityOf(report) = 150
  /\ report.sections.eeat.findings[3].type = "Good"

\* reports on content of 799 and of 300 words: 10.5 points and a Warn finding
C16_WitnessBelow ==
  /\ MainDone /\ word_count = 799 /\ M_UtilityOf(report) = 105
C16_WitnessMid ==
  /\ MainDone /\ word_count = 300 /\ M_UtilityOf(report) = 105
  /\ report.sections.eeat.findings[3].type = "Warn"

\* the text c up to and including its k-th word
HeadWords(c, k) ==
  LET before(i) == WordCount(SubSeq(c, 1, i - 1))
      take == [i \in DOMAIN c |->
                 IF IsWord(c[i].s)
                 THEN R(c[i].s, Max(0, Min(c[i].n, k - before(i))))
                 ELSE R(c[i].s, IF before(i) < k THEN 1 ELSE 0)]
  IN SelectSeq(take, LAMBDA it : it.n > 0)

\* the keyword of the call occurs, whatever the case, in the content up to
\* its 100th word
M_KeywordInHead ==
  Search(Plain(LowerText(target_keyword)), LowerText(HeadWords(content, 100)))

\* C17: in main.check_keyword_relevance with a non-empty keyword the
\* placement check gives 10 points and a Good finding if and only if the
\* keyword phrase occurs, whatever the case, within the first 100 words of
\* the content, and 0 points and a Missing finding otherwise; also for
\* keywords of several words and keywords with a hyphen.
C17_Placement ==
  (MainDone /\ target_keyword # <<>>) =>
    LET fs == report.sections.keyword.findings
        density == CASE fs[1].type = "Good" -> 150
                     [] fs[1].type = "Warn" -> 100
                     [] OTHER -> 0
    IN /\ IF M_KeywordInHead
          THEN fs[2].type = "Good" /\ fs[2].text = "keyword in first 100 words"
          ELSE fs[2].type = "Missing" /\ fs[2].text = "keyword not in intro"
       /\ report.sections.keyword.score
            = density + (IF M_KeywordInHead THEN 100 ELSE 0)

\* C17 for keywords made of words and single spaces only
C17_PlacementWords ==
  (/\ MainDone /\ target_keyword # <<>>
   /\ \A i \in DOMAIN target_keyword :
        IsWord(target_keyword[i].s) \/ target_keyword[i].s = " "
   /\ \A i \in DOMAIN content : content[i].s # "-") =>
    IF M_KeywordInHead
    THEN report.sections.keyword.findings[2].type = "Good"
    ELSE report.sections.keyword.findings[2].type = "Missing"

\* a report for a hyphenated keyword that the content starts with: in the
\* first 100 words, and yet reported Missing
C17_HyphenMissed ==
  /\ MainDone
  /\ \E i \in DOMAIN target_keyword : target_keyword[i].s = "-"
  /\ M_KeywordInHead
  /\ report.sections.keyword.findings[2].type = "Missing"

\* C18: in a report of streamlit_app.analyze_content the Integrity score is
\* 20, 15 or 0, and it is 0 if and only if the "TOTAL FAILURE" finding was
\* recorded, that is if and only if the penalty-event count reached 2.
C18_IntegrityValues ==
  StreamlitDone =>
    LET sec == report.findings.integrity
    IN /\ sec.score \in {20, 15, 0}
       /\ sec.score = 0 <=> Has(sec.cues, "TOTAL FAILURE")
       /\ Has(sec.cues, "TOTAL FAILURE") <=> penalty_count >= 2
       /\ sec.score = 15 <=> penalty_count = 1
       /\ sec.score = 20 <=> penalty_count = 0

\* a report after all four penalty events: score 0 and TOTAL FAILURE
C18_Witness ==
  /\ StreamlitDone
  /\ penalty_count = 4
  /\ report.findings.integrity.score = 0
  /\ Has(report.findings.integrity.cues, "TOTAL FAILURE")

\* reports with one penalty event and with none
C18_WitnessOne ==
  StreamlitDone /\ penalty_count = 1 /\ report.findings.integrity.score = 15
C18_WitnessNone ==
  StreamlitDone /\ penalty_count = 0 /\ report.findings.integrity.score = 20

\* C19: in streamlit_app.analyze_content content with a spam cue or a
\* repeated formulaic phrase and without an AI disclosure gets Integrity
\* score 0 with TOTAL FAILURE, the undisclosed-AI penalty being a penalty
\* event of its own, even when nothing else is wrong; content whose only
\* issue is a word count below 300, without a disclosure, scores 15.
C19_UndisclosedZeroOut ==
  /\ (/\ StreamlitDone
      /\ S_SpamFired(content) \/ S_RepetitiveFired(content)
      /\ ~S_Disclosed(content)) =>
       LET sec == report.findings.integrity
       IN /\ sec.score = 0
          /\ Has(sec.cues, "TOTAL FAILURE")
          /\ Has(sec.missing, "AI Transparency Missing")
          /\ penalty_count >= 2
  /\ (/\ StreamlitDone
      /\ ~S_SpamFired(content) /\ ~S_RepetitiveFired(content)
      /\ S_ThinFired(content)
      /\ ~S_Disclosed(content)) =>
       LET sec == report.findings.integrity
       IN /\ sec.score = 15
          /\ ~Has(sec.cues, "TOTAL FAILURE")
          /\ ~Has(sec.missing, "AI Transparency Missing")
          /\ penalty_count = 1

\* a report on content of 300 words or more whose only issue is one spam
\* phrase, without a disclosure: two penalty events, score 0
C19_Witness ==
  /\ StreamlitDone
  /\ S_SpamCount(content) = 1
  /\ ~S_RepetitiveFired(content) /\ ~S_ThinFired(content)
  /\ ~S_Disclosed(content)
  /\ penalty_count = 2
  /\ report.findings.integrity.score = 0
  /\ Has(report.findings.integrity.cues, "TOTAL FAILURE")

\* a report on short content without other issues and without a disclosure
C19_WitnessThin ==
  /\ StreamlitDone
  /\ ~S_SpamFired(content) /\ ~S_RepetitiveFired(content)
  /\ S_ThinFired(content) /\ ~S_Disclosed(content)
  /\ report.findings.integrity.score = 15

\* C20: in main.check_integrity_compliance, when an AI-disclosure phrase is
\* in the content the accumulated penalty is at most 15 points, the zero-out
\* rule does not fire, no TOTAL FAILURE finding is recorded and the score is
\* at least 10 points, also when the spam and the repetitive penalty both
\* fire; a zero-out is reached only by undisclosed content.
C20_DisclosedNoZeroOut ==
  MainDone =>
    LET sec == report.sections.integrity
    IN /\ M_Disclosed(content) =>
            /\ total_penalty <= 150
            /\ ~Has(sec.findings, "TOTAL FAILURE")
            /\ ~Has(sec.findings, "CRITICAL")
            /\ sec.score >= 100
            /\ sec.score = M_WEIGHTS.INTEGRITY_COMPLIANCE - total_penalty
       /\ (Has(sec.findings, "TOTAL FAILURE") \/ total_penalty >= 200) =>
            ~M_Disclosed(content) /\ sec.score = 0

\* a report on disclosed content with the full spam penalty and the
\* repetitive penalty: 15 points of penalty, score 10
C20_Witness ==
  /\ MainDone
  /\ M_Disclosed(content)
  /\ M_SpamCount(content) >= 2 /\ M_RepetitiveFired(content)
  /\ total_penalty = 150
  /\ report.sections.integrity.score = 100

\* a report on undisclosed content that is zeroed out
C20_WitnessZeroOut ==
  /\ MainDone
  /\ ~M_Disclosed(content)
  /\ Has(report.sections.integrity.findings, "TOTAL FAILURE")
  /\ report.sections.integrity.score = 0

====
